---- MODULE Spec2Model ----
(***************************************************************************)
(* FingerMarbleTsWeapp: the 2D physics engine (src/js/ts/physics.ts), the  *)
(* EventManager-based match controller (src/src/game.ts second class,      *)
(* src/src/eventmanager.ts, src/src/databus.ts) and the original Game      *)
(* controller (src/unnamed/part_002).                                      *)
(*                                                                         *)
(* Numbers.  The program computes in IEEE doubles.  Here a number is an    *)
(* integer count of 1/Unit (two decimals): +, - and comparisons are exact, *)
(* a product, a quotient or a square root is rounded to the nearest        *)
(* 1/Unit, as the double result is rounded to the nearest double.  Where   *)
(* a claim is about the arithmetic itself, the inputs are drawn so that    *)
(* every intermediate result is a multiple of 1/Unit and nothing is        *)
(* rounded.                                                                *)
(***************************************************************************)
EXTENDS Integers, Sequences, FiniteSets, TLC

\* ------------------------------------------------------------------------
\* Fixed-point arithmetic
\* ------------------------------------------------------------------------

\* The representation of 1.0.
Unit == 10 * 10

\* The representation of the integer n.
Num(n) == n * Unit

Abs(a) == IF a < 0 THEN -a ELSE a

Sgn(a) == IF a < 0 THEN -1 ELSE IF a > 0 THEN 1 ELSE 0

Min(a, b) == IF a <= b THEN a ELSE b

Max(a, b) == IF a >= b THEN a ELSE b

\* n / d rounded to the nearest integer, ties away from zero (n >= 0, d > 0).
RoundDiv(n, d) == (2 * n + d) \div (2 * d)

\* a * b in fixed point.  The product is split so that no intermediate value
\* leaves 32 bits.
Mul(a, b) ==
    LET ah == Abs(a) \div Unit
        al == Abs(a) % Unit
    IN  Sgn(a) * Sgn(b) * (ah * Abs(b) + RoundDiv(al * Abs(b), Unit))

\* The value standing for a non-finite double (Infinity, NaN).
NonFinite == -(2 * 1000 * 1000 * 1000)

\* a / b in fixed point; a division by zero gives a non-finite double.
Div(a, b) ==
    IF b = 0 THEN NonFinite
    ELSE Sgn(a) * Sgn(b) * RoundDiv(Abs(a) * Unit, Abs(b))

\* floor(sqrt(n)) by bisection on [lo, hi).
RECURSIVE ISqrtIn(_, _, _)
ISqrtIn(n, lo, hi) ==
    IF hi - lo <= 1 THEN lo
    ELSE LET mid == (lo + hi) \div 2
         IN  IF mid * mid <= n THEN ISqrtIn(n, mid, hi) ELSE ISqrtIn(n, lo, mid)

\* sqrt(n) rounded to the nearest integer.
ISqrt(n) ==
    LET r == ISqrtIn(n, 0, 46341)
    IN  IF n - r * r > r THEN r + 1 ELSE r

\* Math.sqrt in fixed point.  A large argument is rooted at the precision its
\* magnitude leaves, as a double's precision is relative to its magnitude.
Sqrt(a) ==
    IF a <= 20 * 1000 * 1000 THEN ISqrt(a * Unit) ELSE ISqrt(a) * 10

\* Math.pow(base, ex) for an exponent that is a whole number (ex = k * Unit),
\* by squaring, which keeps the rounding error small for a large exponent.
RECURSIVE PowInt(_, _)
PowInt(base, k) ==
    IF k <= 0 THEN Unit
    ELSE IF k % 2 = 1 THEN Mul(base, PowInt(base, k - 1))
    ELSE Mul(PowInt(base, k \div 2), PowInt(base, k \div 2))

Pow(base, ex) == PowInt(base, ex \div Unit)

\* ------------------------------------------------------------------------
\* PhysicsEngine (src/js/ts/physics.ts)
\* ------------------------------------------------------------------------

\* A PhysicsBody.  A missing radius, width or height is 0, which is what the
\* engine reads it as (body.radius || 0).  hasCb: the body has an onCollide.
Body(id, type, x, y, vx, vy, mass, radius, width, height, isStatic, restitution, friction, hasCb) ==
    [id |-> id, type |-> type, x |-> x, y |-> y, vx |-> vx, vy |-> vy,
     mass |-> mass, radius |-> radius, width |-> width, height |-> height,
     isStatic |-> isStatic, restitution |-> restitution,
     friction |-> friction, hasCb |-> hasCb]

\* One onCollide invocation: on body `on`, with `other` and `force`.
Call(on, other, force) == [on |-> on, other |-> other, force |-> force]

\* Mutant of reflect: the velocity on the axis is negated, not scaled.
reflectUndamped(st, axis) ==
    [body |-> IF axis = "x" THEN [st.body EXCEPT !.vx = -st.body.vx]
              ELSE [st.body EXCEPT !.vy = -st.body.vy],
     calls |-> IF st.body.hasCb
               THEN Append(st.calls,
                           Call(st.body.id, "wall",
                                Abs(IF axis = "x" THEN st.body.vx ELSE st.body.vy)))
               ELSE st.calls]

\* reflect: the velocity on the axis is negated and scaled by restitution;
\* the callback gets the speed on that axis after the reflection.
reflect(st, axis) ==
    LET body == st.body
        nb == IF axis = "x"
              THEN [body EXCEPT !.vx = Mul(-body.vx, body.restitution)]
              ELSE [body EXCEPT !.vy = Mul(-body.vy, body.restitution)]
        force == Abs(IF axis = "x" THEN nb.vx ELSE nb.vy)
    IN  [body |-> nb,
         calls |-> IF body.hasCb
                   THEN Append(st.calls, Call(body.id, "wall", force))
                   ELSE st.calls]

\* checkWorldBounds: clamp on x, then on y.
checkWorldBounds(st, bounds) ==
    LET r == st.body.radius
        sx == IF st.body.x - r < 0
              THEN reflect([st EXCEPT !.body.x = r], "x")
              ELSE IF st.body.x + r > bounds.width
                   THEN reflect([st EXCEPT !.body.x = bounds.width - r], "x")
                   ELSE st
    IN  IF sx.body.y - r < 0
        THEN reflect([sx EXCEPT !.body.y = r], "y")
        ELSE IF sx.body.y + r > bounds.height
             THEN reflect([sx EXCEPT !.body.y = bounds.height - r], "y")
             ELSE sx

\* The speed threshold under which updateBody zeroes the velocity (0.5).
SnapSpeed == Unit \div 2

\* updateBody: integrate, damp or snap, clamp.
updateBody(st, dt, bounds) ==
    LET body == st.body IN
    IF body.isStatic THEN st
    ELSE
      LET x1 == body.x + Mul(body.vx, dt)
          y1 == body.y + Mul(body.vy, dt)
          speed == Sqrt(Mul(body.vx, body.vx) + Mul(body.vy, body.vy))
          frictionScalar == Pow(Unit - body.friction, Mul(dt, Num(60)))
          moved == IF speed > SnapSpeed
                   THEN [body EXCEPT !.x = x1, !.y = y1,
                                     !.vx = Mul(body.vx, frictionScalar),
                                     !.vy = Mul(body.vy, frictionScalar)]
                   ELSE [body EXCEPT !.x = x1, !.y = y1, !.vx = 0, !.vy = 0]
      IN  checkWorldBounds([st EXCEPT !.body = moved], bounds)

\* Mutant of checkDistance: equality does not count as within range.
checkDistanceStrict(b1, b2, threshold) ==
    Mul(b1.x - b2.x, b1.x - b2.x) + Mul(b1.y - b2.y, b1.y - b2.y)
        < Mul(threshold, threshold)

\* Mutant of checkDistance: the differences keep their signs.
checkDistanceSigned(b1, b2, threshold) ==
    Mul(b1.x - b2.x, Abs(b1.x - b2.x)) + Mul(b1.y - b2.y, Abs(b1.y - b2.y))
        <= Mul(threshold, threshold)

\* checkDistance: squared distance against squared threshold.
checkDistance(b1, b2, threshold) ==
    LET dx == b1.x - b2.x
        dy == b1.y - b2.y
    IN  Mul(dx, dx) + Mul(dy, dy) <= Mul(threshold, threshold)

\* Mutant of resolveOverlap: half the overlap each, static or not.
resolveOverlapBoth(p, nx, ny, overlap) ==
    [p EXCEPT !.b1.x = p.b1.x - Mul(nx, Mul(Unit \div 2, overlap)),
              !.b1.y = p.b1.y - Mul(ny, Mul(Unit \div 2, overlap)),
              !.b2.x = p.b2.x + Mul(nx, Mul(Unit \div 2, overlap)),
              !.b2.y = p.b2.y + Mul(ny, Mul(Unit \div 2, overlap))]

\* resolveOverlap: both dynamic: half the overlap each; else the dynamic one
\* takes all of it.
resolveOverlap(p, nx, ny, overlap) ==
    LET factor == Mul(Unit \div 2, overlap)
        b1 == p.b1
        b2 == p.b2
    IN  IF ~b1.isStatic /\ ~b2.isStatic
        THEN [p EXCEPT !.b1.x = b1.x - Mul(nx, factor),
                       !.b1.y = b1.y - Mul(ny, factor),
                       !.b2.x = b2.x + Mul(nx, factor),
                       !.b2.y = b2.y + Mul(ny, factor)]
        ELSE IF ~b1.isStatic
             THEN [p EXCEPT !.b1.x = b1.x - Mul(nx, overlap),
                            !.b1.y = b1.y - Mul(ny, overlap)]
             ELSE IF ~b2.isStatic
                  THEN [p EXCEPT !.b2.x = b2.x + Mul(nx, overlap),
                                 !.b2.y = b2.y + Mul(ny, overlap)]
                  ELSE p

\* The relative velocity of b2 against b1 along the normal.
velNormalOf(b1, b2, nx, ny) ==
    Mul(b2.vx - b1.vx, nx) + Mul(b2.vy - b1.vy, ny)

\* Mutant of isSeparating: the early return is never taken.
isSeparatingNever(velNormal) == FALSE

\* calculateImpulse's early return: the pair is separating.
isSeparating(velNormal) == velNormal > 0

\* Mutant of impulseRestitution: the larger of the two.
impulseRestitutionMax(b1, b2) == Max(b1.restitution, b2.restitution)

\* calculateImpulse's restitution: the smaller of the two.
impulseRestitution(b1, b2) == Min(b1.restitution, b2.restitution)

\* calculateImpulse.
calculateImpulse(p, nx, ny) ==
    LET b1 == p.b1
        b2 == p.b2
        velNormal == velNormalOf(b1, b2, nx, ny)
        e == impulseRestitution(b1, b2)
        invM1 == IF b1.isStatic THEN 0 ELSE Div(Unit, b1.mass)
        invM2 == IF b2.isStatic THEN 0 ELSE Div(Unit, b2.mass)
        j == Div(Mul(-(Unit + e), velNormal), invM1 + invM2)
        ix == Mul(j, nx)
        iy == Mul(j, ny)
        force == IF j = NonFinite THEN NonFinite ELSE Abs(j)
        c1 == IF b1.hasCb THEN <<Call(b1.id, b2.id, force)>> ELSE <<>>
        c2 == IF b2.hasCb THEN <<Call(b2.id, b1.id, force)>> ELSE <<>>
    IN  IF isSeparating(velNormal) THEN p
        ELSE [b1 |-> IF b1.isStatic THEN b1
                     ELSE [b1 EXCEPT !.vx = b1.vx - Mul(ix, invM1),
                                     !.vy = b1.vy - Mul(iy, invM1)],
              b2 |-> IF b2.isStatic THEN b2
                     ELSE [b2 EXCEPT !.vx = b2.vx + Mul(ix, invM2),
                                     !.vy = b2.vy + Mul(iy, invM2)],
              calls |-> p.calls \o c1 \o c2]

\* resolveCircleCollision.
resolveCircleCollision(p) ==
    LET dx == p.b2.x - p.b1.x
        dy == p.b2.y - p.b1.y
        distSq == Mul(dx, dx) + Mul(dy, dy)
        radSum == p.b1.radius + p.b2.radius
    IN  IF distSq < Mul(radSum, radSum) /\ distSq > 0
        THEN LET dist == Sqrt(distSq)
                 nx == Div(dx, dist)
                 ny == Div(dy, dist)
             IN  calculateImpulse(resolveOverlap(p, nx, ny, radSum - dist),
                                  nx, ny)
        ELSE p

\* resolveCircleRectCollision(c, r): c is p.b1, r is p.b2.
resolveCircleRectCollision(p) ==
    LET c == p.b1
        r == p.b2
        closestX == Max(r.x, Min(c.x, r.x + r.width))
        closestY == Max(r.y, Min(c.y, r.y + r.height))
        dx == c.x - closestX
        dy == c.y - closestY
        distSq == Mul(dx, dx) + Mul(dy, dy)
        rad == c.radius
    IN  IF distSq < Mul(rad, rad) /\ distSq > 0 /\ ~c.isStatic
        THEN LET dist == Sqrt(distSq)
                 nx == Div(dx, dist)
                 ny == Div(dy, dist)
                 dot == Mul(c.vx, nx) + Mul(c.vy, ny)
             IN  [p EXCEPT
                    !.b1.x = c.x + Mul(nx, rad - dist),
                    !.b1.y = c.y + Mul(ny, rad - dist),
                    !.b1.vx = c.vx - Mul(Mul(Mul(Num(2), dot), nx), c.restitution),
                    !.b1.vy = c.vy - Mul(Mul(Mul(Num(2), dot), ny), c.restitution),
                    !.calls = IF c.hasCb
                              THEN Append(p.calls,
                                          Call(c.id, r.id, Abs(Mul(dot, Num(2)))))
                              ELSE p.calls]
        ELSE p

\* Mutant of resolveCollision: two circles with identical centres are
\* resolved along the x axis.
resolveCollisionAlongX(p) ==
    IF p.b1.type = "circle" /\ p.b2.type = "circle"
    THEN IF p.b1.x = p.b2.x /\ p.b1.y = p.b2.y
         THEN calculateImpulse(
                  resolveOverlap(p, Unit, 0, p.b1.radius + p.b2.radius), Unit, 0)
         ELSE resolveCircleCollision(p)
    ELSE IF p.b1.type = "circle" /\ p.b2.type = "rectangle"
         THEN resolveCircleRectCollision(p)
         ELSE p

\* resolveCollision: dispatch on the two shapes; the result keeps the order
\* of the arguments.
resolveCollision(p) ==
    IF p.b1.type = "circle" /\ p.b2.type = "circle"
    THEN resolveCircleCollision(p)
    ELSE IF p.b1.type = "circle" /\ p.b2.type = "rectangle"
         THEN resolveCircleRectCollision(p)
         ELSE IF p.b1.type = "rectangle" /\ p.b2.type = "circle"
              THEN LET q == resolveCircleRectCollision(
                                [b1 |-> p.b2, b2 |-> p.b1, calls |-> p.calls])
                   IN  [b1 |-> q.b2, b2 |-> q.b1, calls |-> q.calls]
              ELSE p

\* bodies.forEach(body => this.updateBody(body, dt)), from body i on.
RECURSIVE updateBodies(_, _, _, _)
updateBodies(w, i, dt, bounds) ==
    IF i > Len(w.bodies) THEN w
    ELSE LET st == updateBody([body |-> w.bodies[i], calls |-> w.calls],
                              dt, bounds)
         IN  updateBodies([bodies |-> [w.bodies EXCEPT ![i] = st.body],
                           calls |-> st.calls], i + 1, dt, bounds)

\* The loop over the pairs i < j, from the pair (i, j) on.
RECURSIVE resolvePairs(_, _, _)
resolvePairs(w, i, j) ==
    IF i > Len(w.bodies) THEN w
    ELSE IF j > Len(w.bodies) THEN resolvePairs(w, i + 1, i + 2)
    ELSE LET q == resolveCollision([b1 |-> w.bodies[i], b2 |-> w.bodies[j],
                                    calls |-> w.calls])
         IN  resolvePairs([bodies |-> [w.bodies EXCEPT ![i] = q.b1, ![j] = q.b2],
                           calls |-> q.calls], i, j + 1)

\* PhysicsEngine.update(bodies, dt): the bodies after the call and the
\* onCollide invocations it made, in order.
update(bodies, dt, bounds) ==
    resolvePairs(updateBodies([bodies |-> bodies, calls |-> <<>>], 1, dt, bounds),
                 1, 2)

VARIABLES
    pairIn,     \* SpecImpulse: the two circles handed to resolveCircleCollision
    pairOut,    \* SpecImpulse: <<the pair after the call>>, <<>> before it
    bodies,     \* SpecPhys: the PhysicsBody[] handed to PhysicsEngine.update
    calls,      \* SpecPhys: the onCollide invocations of the last update
    steps,      \* SpecPhys: the number of update calls made
    game,       \* SpecGame: the fields of the original Game controller
    main,       \* Spec: the fields of RetroMarbleGame
    events,     \* Spec: the fields of EventManager
    menu,       \* Spec: the fields of MenuSystem
    databus,    \* Spec: the fields of DataBus
    timers,     \* Spec: the pending setTimeout(settleRound) callbacks
    ghost,      \* Spec: history (launches, idle frames, resets, turn flips, over)
    clock,      \* SpecLoop: the time and the fields of the two frame loops
    race        \* SpecRace: the fields of the racing game (Main and its DataBus)

impulseVars == <<pairIn, pairOut>>

physVars == <<bodies, calls, steps>>

appVars == <<main, events, menu, databus, timers, ghost>>

sideVars == <<clock, race>>

vars == <<impulseVars, physVars, game, appVars, sideVars>>

\* The values of a specification's variables in the other specifications.
IdleImpulse == pairIn = <<>> /\ pairOut = <<>>

IdlePhys == bodies = <<>> /\ calls = <<>> /\ steps = 0

IdleGame == game = <<>>

IdleSide == clock = <<>> /\ race = <<>>

IdleApp ==
    /\ main = <<>> /\ events = <<>> /\ menu = <<>>
    /\ databus = <<>> /\ timers = <<>> /\ ghost = <<>>

\* ------------------------------------------------------------------------
\* SpecImpulse: resolveCircleCollision on one pair of overlapping circles
\* ------------------------------------------------------------------------

\* Velocity components are multiples of 5 up to 5 * MaxSpeedSteps.
MaxSpeedSteps == 1

SpeedSet == {Num(5 * k) : k \in (-MaxSpeedSteps)..MaxSpeedSteps}

\* Centre offsets of length 5 (3-4-5 triangles), so that the unit normal has
\* two decimals exactly.
OffsetSet ==
    {<<Num(5), 0>>, <<0, -Num(5)>>, <<Num(3), Num(4)>>, <<-Num(4), Num(3)>>,
     <<-Num(3), -Num(4)>>, <<Num(4), -Num(3)>>}

\* (mass of b1, mass of b2)
MassSet == {<<Num(1), Num(1)>>, <<Num(1), Num(4)>>, <<Num(4), Num(1)>>}

\* (b1 static, b2 static)
StaticSet == {<<FALSE, FALSE>>, <<TRUE, FALSE>>, <<FALSE, TRUE>>, <<TRUE, TRUE>>}

PairCircle(id, x, y, vx, vy, mass, isStatic, restitution) ==
    Body(id, "circle", x, y, vx, vy, mass, Num(3), 0, 0, isStatic,
         restitution, 0, TRUE)

InitImpulse ==
    /\ \E off \in OffsetSet, m \in MassSet, s \in StaticSet,
          v1x \in SpeedSet, v1y \in SpeedSet, v2x \in SpeedSet, v2y \in SpeedSet,
          e1 \in {Unit \div 2, Unit}, e2 \in {0, Unit} :
         pairIn = [b1 |-> PairCircle("b1", Num(20), Num(20), v1x, v1y,
                                     m[1], s[1], e1),
                   b2 |-> PairCircle("b2", Num(20) + off[1], Num(20) + off[2],
                                     v2x, v2y, m[2], s[2], e2)]
    /\ pairOut = <<>>
    /\ IdlePhys /\ IdleGame /\ IdleApp /\ IdleSide

\* this.resolveCircleCollision(b1, b2)
ResolvePair ==
    /\ pairOut = <<>>
    /\ pairOut' = <<resolveCircleCollision(
                       [b1 |-> pairIn.b1, b2 |-> pairIn.b2, calls |-> <<>>])>>
    /\ UNCHANGED <<pairIn, physVars, game, appVars, sideVars>>

NextImpulse == ResolvePair

SpecImpulse == InitImpulse /\ [][NextImpulse]_vars

\* The unit normal from b1 to b2 of the pair handed in, as the engine
\* computes it.
PairNormal ==
    LET dx == pairIn.b2.x - pairIn.b1.x
        dy == pairIn.b2.y - pairIn.b1.y
        dist == Sqrt(Mul(dx, dx) + Mul(dy, dy))
    IN  [x |-> Div(dx, dist), y |-> Div(dy, dist)]

\* (b2's velocity - b1's velocity) . normal, unrounded (in 1/Unit^2).
RawVelNormal(p) ==
    (p.b2.vx - p.b1.vx) * PairNormal.x + (p.b2.vy - p.b1.vy) * PairNormal.y

PairDone == pairIn # <<>> /\ pairOut # <<>>

SameVelocity(a, b) == a.vx = b.vx /\ a.vy = b.vy

\* C9: a pair of overlapping circles whose relative velocity along the
\* normal (b2 minus b1, normal from b1 to b2) is >= 0, zero included, comes
\* out of collision resolution with vx and vy of both bodies unchanged.
C9_SeparatingKeepsVelocity ==
    (PairDone /\ RawVelNormal(pairIn) >= 0)
        => /\ SameVelocity(pairOut[1].b1, pairIn.b1)
           /\ SameVelocity(pairOut[1].b2, pairIn.b2)

\* C9 witness: a resolved pair of two moving dynamic circles whose relative
\* normal velocity was exactly 0, and one whose was > 0.
C9_Witness ==
    /\ PairDone
    /\ RawVelNormal(pairIn) = 0
    /\ ~pairIn.b1.isStatic /\ ~pairIn.b2.isStatic
    /\ pairIn.b1.vx # 0 /\ pairIn.b2.vy # 0
    /\ pairOut[1].b1.x # pairIn.b1.x

\* C23: for an overlapping circle pair whose relative velocity along the
\* normal is >= 0, exactly 0 included, impulse application is skipped
\* entirely: no onCollide callback of either body is invoked for the pair.
C23_SeparatingInvokesNoCallback ==
    (PairDone /\ RawVelNormal(pairIn) >= 0) => pairOut[1].calls = <<>>

\* C10: after an approaching pair (at least one body dynamic) is resolved,
\* the relative velocity along the normal is >= 0 and at most
\* min(restitution1, restitution2) times the approach speed.
C10_RestitutionCeiling ==
    (/\ PairDone
     /\ RawVelNormal(pairIn) < 0
     /\ ~(pairIn.b1.isStatic /\ pairIn.b2.isStatic))
        => /\ RawVelNormal(pairOut[1]) >= 0
           /\ RawVelNormal(pairOut[1]) * Unit
                <= Min(pairIn.b1.restitution, pairIn.b2.restitution)
                     * (-RawVelNormal(pairIn))

\* C10 witness: an approaching pair of unequal masses and different
\* restitutions came out separating at a non-zero speed.
C10_Witness ==
    /\ PairDone
    /\ RawVelNormal(pairIn) < 0
    /\ ~pairIn.b1.isStatic /\ ~pairIn.b2.isStatic
    /\ pairIn.b1.mass # pairIn.b2.mass
    /\ pairIn.b1.restitution # pairIn.b2.restitution
    /\ RawVelNormal(pairOut[1]) > 0

\* b's share of the overlap as <<numerator, denominator>>: its inverse mass
\* over the sum of both inverse masses, the inverse mass of a static body
\* being 0 (1/mb / (1/mb + 1/mo) = mo / (mb + mo)).
OverlapShare(b, o) ==
    IF b.isStatic THEN <<0, 1>>
    ELSE IF o.isStatic THEN <<1, 1>>
    ELSE <<o.mass, b.mass + o.mass>>

\* The overlap of the pair handed in: the sum of the radii minus the distance.
PairOverlap ==
    LET dx == pairIn.b2.x - pairIn.b1.x
        dy == pairIn.b2.y - pairIn.b1.y
    IN  pairIn.b1.radius + pairIn.b2.radius - Sqrt(Mul(dx, dx) + Mul(dy, dy))

\* C18: when two overlapping circles are resolved, b1 is displaced against
\* the normal and b2 along it, each by the overlap times its inverse mass
\* over the sum of both inverse masses (0 for a static body), two dynamic
\* bodies of unequal mass included.
C18_OverlapSplitByInverseMass ==
    PairDone =>
        LET s1 == OverlapShare(pairIn.b1, pairIn.b2)
            s2 == OverlapShare(pairIn.b2, pairIn.b1)
        IN  /\ (pairIn.b1.x - pairOut[1].b1.x) * s1[2]
                   = Mul(PairNormal.x, PairOverlap) * s1[1]
            /\ (pairIn.b1.y - pairOut[1].b1.y) * s1[2]
                   = Mul(PairNormal.y, PairOverlap) * s1[1]
            /\ (pairOut[1].b2.x - pairIn.b2.x) * s2[2]
                   = Mul(PairNormal.x, PairOverlap) * s2[1]
            /\ (pairOut[1].b2.y - pairIn.b2.y) * s2[2]
                   = Mul(PairNormal.y, PairOverlap) * s2[1]

\* ------------------------------------------------------------------------
\* SpecDist: checkDistance on two bodies and a threshold
\* ------------------------------------------------------------------------

\* Where b1 is.
DistOrigins == {<<0, 0>>, <<Num(20), Num(20)>>}

\* b2's centre minus b1's: multiples of 0.1, at distance 0, 0.5, 5, 10 and
\* just off 5.
DistOffsets ==
    {<<0, 0>>, <<3 * (Unit \div 10), 4 * (Unit \div 10)>>,
     <<Num(3), Num(4)>>, <<-Num(4), Num(3)>>, <<Num(6), -Num(8)>>,
     <<Num(3), Num(4) + Unit \div 10>>, <<Num(3) - Unit \div 10, Num(4)>>}

\* The thresholds: multiples of 0.1, a negative one included.
DistThresholds ==
    {0, Unit \div 2, Num(5), -Num(5), Num(5) + Unit \div 10, Num(10)}

InitDist ==
    /\ \E o \in DistOrigins, off \in DistOffsets, t \in DistThresholds :
         pairIn = [b1 |-> PairCircle("b1", o[1], o[2], 0, 0, Num(1), FALSE, Unit),
                   b2 |-> PairCircle("b2", o[1] + off[1], o[2] + off[2], 0, 0,
                                     Num(1), FALSE, Unit),
                   threshold |-> t]
    /\ pairOut = <<>>
    /\ IdlePhys /\ IdleGame /\ IdleApp /\ IdleSide

\* physics.checkDistance(b1, b2, threshold) and
\* physics.checkDistance(b2, b1, threshold); the bodies after the calls are
\* the bodies before them, as checkDistance assigns to nothing.
CheckDistance ==
    /\ pairOut = <<>>
    /\ pairOut' = <<[ab |-> checkDistance(pairIn.b1, pairIn.b2, pairIn.threshold),
                     ba |-> checkDistance(pairIn.b2, pairIn.b1, pairIn.threshold),
                     b1 |-> pairIn.b1, b2 |-> pairIn.b2]>>
    /\ UNCHANGED <<pairIn, physVars, game, appVars, sideVars>>

NextDist == CheckDistance

SpecDist == InitDist /\ [][NextDist]_vars

\* (a.x - b.x)^2 + (a.y - b.y)^2 <= threshold^2, in exact integer arithmetic.
WithinExactly(a, b, t) ==
    (a.x - b.x) * (a.x - b.x) + (a.y - b.y) * (a.y - b.y) <= t * t

\* C15: checkDistance(a, b, threshold) is true exactly when
\* (a.x - b.x)^2 + (a.y - b.y)^2 <= threshold^2, equality counting as within
\* range, and it modifies neither body.
C15_CheckDistanceExact ==
    PairDone =>
        /\ pairOut[1].ab = WithinExactly(pairIn.b1, pairIn.b2, pairIn.threshold)
        /\ pairOut[1].b1 = pairIn.b1 /\ pairOut[1].b2 = pairIn.b2

\* C15 witness: checkDistance was true for two bodies exactly the threshold
\* apart (3-4-5).
C15_Witness ==
    /\ PairDone
    /\ pairIn.threshold = Num(5)
    /\ pairIn.b2.x - pairIn.b1.x = Num(3) /\ pairIn.b2.y - pairIn.b1.y = Num(4)
    /\ pairOut[1].ab

\* C16: checkDistance(a, b, t) = checkDistance(b, a, t).
C16_CheckDistanceSymmetric ==
    PairDone => pairOut[1].ab = pairOut[1].ba

\* C16 witness: both orders were true for bodies at different places, and
\* both were false for others.
C16_Witness ==
    /\ PairDone
    /\ pairIn.b1.x # pairIn.b2.x /\ pairIn.b1.y # pairIn.b2.y
    /\ pairOut[1].ab /\ pairOut[1].ba
    /\ pairIn.threshold < 0

\* ------------------------------------------------------------------------
\* SpecPair: resolveCollision on one pair, circles and rectangles
\* ------------------------------------------------------------------------

\* The second circle's centre minus the first's: identical centres,
\* overlapping (distance 5 < 6), apart (distance 10).
PairCircleOffsets == {<<0, 0>>, <<Num(3), Num(4)>>, <<Num(6), Num(8)>>}

\* The 4 x 4 rectangle's corner (x, y), for a circle of radius 3 at (20, 20):
\* the centre inside, on an edge, on a corner, outside at distance 2, apart.
PairRectCorners ==
    {<<Num(18), Num(18)>>, <<Num(20), Num(18)>>, <<Num(20), Num(20)>>,
     <<Num(22), Num(18)>>, <<Num(30), Num(30)>>}

PairRect(x, y) ==
    Body("rect", "rectangle", x, y, 0, 0, 0, 0, Num(4), Num(4), TRUE,
         Unit \div 2, Unit \div 2, TRUE)

\* The pairs: two circles; a circle and a rectangle, in both orders.
PairInputs ==
    {[b1 |-> PairCircle("b1", Num(20), Num(20), v[1], v[2], Num(1), s1, Unit),
      b2 |-> PairCircle("b2", Num(20) + off[1], Num(20) + off[2], -v[1], -v[2],
                        Num(4), s2, Unit \div 2)] :
        v \in {<<Num(5), 0>>, <<Num(3), Num(4)>>}, off \in PairCircleOffsets,
        s1 \in BOOLEAN, s2 \in BOOLEAN}
    \cup
    {[b1 |-> PairCircle("b1", Num(20), Num(20), v[1], v[2], Num(1), s1, e),
      b2 |-> PairRect(c[1], c[2])] :
        v \in {<<Num(5), 0>>, <<Num(3), Num(4)>>, <<-Num(5), 0>>},
        c \in PairRectCorners, s1 \in BOOLEAN, e \in {Unit \div 4, Unit}}
    \cup
    {[b1 |-> PairRect(c[1], c[2]),
      b2 |-> PairCircle("b2", Num(20), Num(20), v[1], v[2], Num(1), s2, Unit)] :
        v \in {<<Num(5), 0>>, <<Num(3), Num(4)>>}, c \in PairRectCorners,
        s2 \in BOOLEAN}

InitPair ==
    /\ pairIn \in PairInputs
    /\ pairOut = <<>>
    /\ IdlePhys /\ IdleGame /\ IdleApp /\ IdleSide

\* this.resolveCollision(b1, b2)
ResolveCollision ==
    /\ pairOut = <<>>
    /\ pairOut' = <<resolveCollision(
                       [b1 |-> pairIn.b1, b2 |-> pairIn.b2, calls |-> <<>>])>>
    /\ UNCHANGED <<pairIn, physVars, game, appVars, sideVars>>

NextPair == ResolveCollision

SpecPair == InitPair /\ [][NextPair]_vars

\* The closest point of rectangle r to circle c's centre is the centre.
CentreInRect(c, r) ==
    /\ c.type = "circle" /\ r.type = "rectangle"
    /\ r.x <= c.x /\ c.x <= r.x + r.width
    /\ r.y <= c.y /\ c.y <= r.y + r.height

\* The pair is at distance zero.
ZeroDistance(p) ==
    \/ /\ p.b1.type = "circle" /\ p.b2.type = "circle"
       /\ p.b1.x = p.b2.x /\ p.b1.y = p.b2.y
    \/ CentreInRect(p.b1, p.b2)
    \/ CentreInRect(p.b2, p.b1)

\* The circle and the rectangle of a pair of the two kinds.
IsCircleRect(p) ==
    \/ p.b1.type = "circle" /\ p.b2.type = "rectangle"
    \/ p.b1.type = "rectangle" /\ p.b2.type = "circle"

CircleOf(p) == IF p.b1.type = "circle" THEN p.b1 ELSE p.b2

RectOf(p) == IF p.b1.type = "circle" THEN p.b2 ELSE p.b1

\* The vector from the rectangle's closest point to the circle's centre:
\* the outward contact normal, not normalised.
Outward(c, r) ==
    <<c.x - Max(r.x, Min(c.x, r.x + r.width)),
      c.y - Max(r.y, Min(c.y, r.y + r.height))>>

\* resolveCircleRectCollision acts on the pair: the circle is dynamic and
\* overlaps the rectangle at a distance > 0.
RectContact(p) ==
    /\ IsCircleRect(p)
    /\ ~CircleOf(p).isStatic
    /\ Outward(CircleOf(p), RectOf(p)) # <<0, 0>>
    /\ Outward(CircleOf(p), RectOf(p))[1] * Outward(CircleOf(p), RectOf(p))[1]
         + Outward(CircleOf(p), RectOf(p))[2] * Outward(CircleOf(p), RectOf(p))[2]
         < CircleOf(p).radius * CircleOf(p).radius

\* The velocity of body c along the vector n (not normalised).
Along(c, n) == c.vx * n[1] + c.vy * n[2]

\* C25: after resolveCircleRectCollision has resolved a dynamic circle
\* against a rectangle, the circle's velocity along the outward contact
\* normal is >= 0, for every restitution in [0, 1] and every incoming
\* velocity, a circle already moving away included.
C25_LeavesRectangle ==
    (PairDone /\ RectContact(pairIn)) =>
        Along(CircleOf(pairOut[1]), Outward(CircleOf(pairIn), RectOf(pairIn))) >= 0

\* C17: if two circles have identical centres, or a circle's centre is inside
\* or on a rectangle, the resolution of the pair changes no position and no
\* velocity of either body and invokes no onCollide.
C17_ZeroDistanceIsNoCollision ==
    (PairDone /\ ZeroDistance(pairIn)) =>
        /\ pairOut[1].b1 = pairIn.b1
        /\ pairOut[1].b2 = pairIn.b2
        /\ pairOut[1].calls = <<>>

\* C17 witness: two moving dynamic circles with identical centres and
\* callbacks have been resolved.
C17_Witness ==
    /\ PairDone
    /\ pairIn.b1.type = "circle" /\ pairIn.b2.type = "circle"
    /\ pairIn.b1.x = pairIn.b2.x /\ pairIn.b1.y = pairIn.b2.y
    /\ ~pairIn.b1.isStatic /\ ~pairIn.b2.isStatic
    /\ pairIn.b1.vx # 0 /\ pairIn.b1.hasCb /\ pairIn.b2.hasCb

\* ------------------------------------------------------------------------
\* SpecPhys: sequences of PhysicsEngine.update calls on a small world
\* ------------------------------------------------------------------------

\* new PhysicsEngine(WorldW, WorldH)
WorldW == 40

WorldH == 30

PhysBounds == [width |-> Num(WorldW), height |-> Num(WorldH)]

\* The number of update calls of a behaviour.
MaxSteps == 4

\* The dt of a call: 0.05 s or 0.1 s (dt * 60 is a whole number).
PhysDtSet == {Unit \div 20, Unit \div 10}

\* The marbles' material (createMarble): restitution 0.7, friction 0.02.
MarbleRestitution == 7 * (Unit \div 10)

MarbleFriction == 2 * (Unit \div 100)

PhysCircle(id, pos, vel, mass, isStatic) ==
    Body(id, "circle", Num(pos[1]), Num(pos[2]), Num(vel[1]), Num(vel[2]),
         Num(mass), Num(5), 0, 0, isStatic, MarbleRestitution, MarbleFriction,
         TRUE)

\* A static obstacle as generateObstacles makes them.
PhysObstacle ==
    Body("obs_0", "rectangle", Num(26), Num(20), 0, 0, 0, 0, Num(8), Num(6),
         TRUE, Unit \div 2, Unit \div 2, FALSE)

InitPhys ==
    /\ \E p1 \in {<<5, 15>>, <<12, 15>>, <<12, 8>>},
          v1 \in {<<0, 0>>, <<60, 0>>, <<-60, 0>>, <<30, 40>>},
          p2 \in {<<22, 15>>, <<30, 15>>, <<30, 16>>},
          v2 \in {<<0, 0>>, <<-100, 0>>, <<-60, -80>>},
          m2 \in {1, 4}, s2 \in BOOLEAN :
         bodies = <<PhysCircle("c1", p1, v1, 1, FALSE),
                    PhysCircle("c2", p2, v2, m2, s2),
                    PhysObstacle>>
    /\ calls = <<>>
    /\ steps = 0
    /\ IdleImpulse /\ IdleGame /\ IdleApp /\ IdleSide

\* physics.update(bodies, dt)
Update(dt) ==
    /\ bodies # <<>>
    /\ steps < MaxSteps
    /\ LET w == update(bodies, dt, PhysBounds)
       IN  bodies' = w.bodies /\ calls' = w.calls
    /\ steps' = steps + 1
    /\ UNCHANGED <<impulseVars, game, appVars, sideVars>>

NextPhys == \E dt \in PhysDtSet : Update(dt)

SpecPhys == InitPhys /\ [][NextPhys]_vars

InWorld(b) ==
    /\ b.radius <= b.x /\ b.x <= PhysBounds.width - b.radius
    /\ b.radius <= b.y /\ b.y <= PhysBounds.height - b.radius

\* C1: at the end of every update (collision resolution included) the
\* centre of every non-static circle satisfies radius <= x <= width - radius
\* and radius <= y <= height - radius.
C1_Containment ==
    \A i \in 1..Len(bodies) :
        (bodies[i].type = "circle" /\ ~bodies[i].isStatic) => InWorld(bodies[i])

\* Body b as updateBody leaves it (integrated, damped or snapped, clamped).
AfterUpdateBody(b, dt) == updateBody([body |-> b, calls |-> <<>>], dt, PhysBounds).body

\* C26: whenever update clamps a body at a world edge, the body's velocity
\* on that axis afterwards points into the world or is zero (>= 0 at the
\* left and top edges, <= 0 at the right and bottom edges), also for a body
\* that an earlier overlap correction pushed outside while it moved inward.
C26_ClampedPointsInward ==
    [][\A dt \in PhysDtSet : Update(dt) =>
         \A i \in 1..Len(bodies) :
            ~bodies[i].isStatic =>
               LET b == bodies[i]
               IN  /\ b.x + Mul(b.vx, dt) - b.radius < 0
                        => AfterUpdateBody(b, dt).vx >= 0
                   /\ b.x + Mul(b.vx, dt) + b.radius > PhysBounds.width
                        => AfterUpdateBody(b, dt).vx <= 0
                   /\ b.y + Mul(b.vy, dt) - b.radius < 0
                        => AfterUpdateBody(b, dt).vy >= 0
                   /\ b.y + Mul(b.vy, dt) + b.radius > PhysBounds.height
                        => AfterUpdateBody(b, dt).vy <= 0]_vars

SameMotion(a, b) == a.x = b.x /\ a.y = b.y /\ a.vx = b.vx /\ a.vy = b.vy

\* C11: update never changes x, y, vx or vy of a body with isStatic = true,
\* circle or rectangle, whatever velocity it stores and whatever bodies it
\* overlaps.
C11_StaticNeverMoves ==
    [][\A i \in 1..Len(bodies) :
          bodies[i].isStatic => SameMotion(bodies'[i], bodies[i])]_vars

\* C11 witness: an update has resolved a dynamic circle against a static
\* circle that stores a velocity (the static circle's onCollide was called),
\* next to the static rectangle.
C11_Witness ==
    /\ steps > 0
    /\ bodies[2].isStatic /\ bodies[2].vx # 0
    /\ bodies[3].isStatic /\ bodies[3].type = "rectangle"
    /\ \E k \in 1..Len(calls) : calls[k].on = "c2" /\ calls[k].other = "c1"

\* ------------------------------------------------------------------------
\* SpecBody: PhysicsEngine.update calls on one dynamic circle in the world
\* ------------------------------------------------------------------------

\* The dt of a call: 0.1 s or 1 s.
BodyDtSet == {Unit \div 10, Unit}

\* A circle of radius 10 with an onCollide callback or without one.
BodyCircle(x, y, vx, vy, restitution, friction, hasCb) ==
    Body("ball", "circle", x, y, vx, vy, Unit, Num(10), 0, 0, FALSE,
         restitution, friction, hasCb)

\* The circle starts at an edge or in the middle, at rest, slower than the
\* snap threshold (0.3 and 0.4: speed 0.5) or fast.
InitBody ==
    /\ \E x \in {Num(10), Num(20), Num(30)}, y \in {Num(10), Num(15)},
          vx \in {-Num(100), 0, 3 * (Unit \div 10), Num(100)},
          vy \in {-Num(50), 0, 4 * (Unit \div 10)},
          e \in {8 * (Unit \div 10), Unit \div 2},
          f \in {0, MarbleFriction}, cb \in BOOLEAN :
         bodies = <<BodyCircle(x, y, vx, vy, e, f, cb)>>
    /\ calls = <<>>
    /\ steps = 0
    /\ IdleImpulse /\ IdleGame /\ IdleApp /\ IdleSide

NextBody == \E dt \in BodyDtSet : Update(dt)

SpecBody == InitBody /\ [][NextBody]_vars

\* Math.sqrt(vx * vx + vy * vy), as updateBody computes it.
SpeedOf(b) == Sqrt(Mul(b.vx, b.vx) + Mul(b.vy, b.vy))

\* The velocity (v is vx or vy of b) after the friction or the snap of an
\* update of dt.
AfterFriction(b, v, dt) ==
    IF SpeedOf(b) > SnapSpeed
    THEN Mul(v, Pow(Unit - b.friction, Mul(dt, Num(60))))
    ELSE 0

\* The integration of an update of dt carries b past an edge on the x axis,
\* on the y axis.
PastEdgeX(b, dt) ==
    \/ b.x + Mul(b.vx, dt) - b.radius < 0
    \/ b.x + Mul(b.vx, dt) + b.radius > PhysBounds.width

PastEdgeY(b, dt) ==
    \/ b.y + Mul(b.vy, dt) - b.radius < 0
    \/ b.y + Mul(b.vy, dt) + b.radius > PhysBounds.height

\* C12: once the speed of every dynamic body is at or below the snap
\* threshold 0.5, every update, the first one included, leaves x and y of
\* every body unchanged.
C12_RestingBodiesStay ==
    [][(\A i \in 1..Len(bodies) :
           ~bodies[i].isStatic => SpeedOf(bodies[i]) <= SnapSpeed)
       => (\A i \in 1..Len(bodies) :
              bodies'[i].x = bodies[i].x /\ bodies'[i].y = bodies[i].y)]_vars

\* C13: when the integration carries the circle past a world edge on an
\* axis, its centre on that axis ends exactly one radius inside that edge
\* and its velocity on that axis is minus restitution times the velocity it
\* had on that axis after the step's friction or snap.
C13_EdgeClampAndReflect ==
    [][\A dt \in BodyDtSet : Update(dt) =>
         LET b == bodies[1]
             c == bodies'[1]
         IN  /\ b.x + Mul(b.vx, dt) - b.radius < 0 => c.x = b.radius
             /\ b.x + Mul(b.vx, dt) + b.radius > PhysBounds.width
                  => c.x = PhysBounds.width - b.radius
             /\ PastEdgeX(b, dt)
                  => c.vx = Mul(-AfterFriction(b, b.vx, dt), b.restitution)
             /\ b.y + Mul(b.vy, dt) - b.radius < 0 => c.y = b.radius
             /\ b.y + Mul(b.vy, dt) + b.radius > PhysBounds.height
                  => c.y = PhysBounds.height - b.radius
             /\ PastEdgeY(b, dt)
                  => c.vy = Mul(-AfterFriction(b, b.vy, dt), b.restitution)]_vars

\* C13 witness: the circle that started at x = 10 with radius 10, vx = -100,
\* friction 0 and restitution 0.8 has ended its first update, of dt = 1 or
\* 0.1, at x = 10 with vx = +80.
C13_Witness ==
    /\ steps = 1
    /\ bodies[1].radius = Num(10) /\ bodies[1].friction = 0
    /\ bodies[1].restitution = 8 * (Unit \div 10)
    /\ bodies[1].x = Num(10) /\ bodies[1].vx = Num(80)

\* C14: when an update clamps a body that has an onCollide callback at a
\* world edge, the callback is invoked during that update with a body whose
\* id is 'wall' and with the body's speed on the clamped axis before the
\* reflection.
C14_WallCallbackForce ==
    [][\A dt \in BodyDtSet : (Update(dt) /\ bodies[1].hasCb) =>
         /\ PastEdgeX(bodies[1], dt)
              => \E k \in 1..Len(calls') :
                    /\ calls'[k].on = bodies[1].id /\ calls'[k].other = "wall"
                    /\ calls'[k].force = Abs(AfterFriction(bodies[1], bodies[1].vx, dt))
         /\ PastEdgeY(bodies[1], dt)
              => \E k \in 1..Len(calls') :
                    /\ calls'[k].on = bodies[1].id /\ calls'[k].other = "wall"
                    /\ calls'[k].force = Abs(AfterFriction(bodies[1], bodies[1].vy, dt))]_vars

\* ------------------------------------------------------------------------
\* SpecGame: the original Game controller (src/unnamed/part_002)
\* ------------------------------------------------------------------------

\* canvas.width and canvas.height.
CanvasW == 800

CanvasH == 600

\* The launches (shoot calls) of a behaviour.
MaxShots == 1

\* The frame's dt: Math.min((timestamp - lastTime) / 1000, 0.1).
GameDtSet == {Unit \div 10}

\* The AI's aim error as <<cos, sin>> of (Math.random() - 0.5) * errorRange:
\* 0 rad and 0.14 rad (errorRange is 0.35 at grade 1).
AiErrorSet == {<<Unit, 0>>, <<Unit - 1, 14>>}

\* The AI's force 400 + Math.random() * 400.
AiForceSet == {Num(700)}

\* Where the pointer goes down, relative to the player's marble: on it, and
\* away from it.
PointerDownOffsets == {<<0, 0>>, <<300, 0>>}

\* Where the pointer is dragged to and released, relative to the player's
\* marble: 15 px away (no launch) and 100 px away.
PointerPullOffsets == {<<-9, -12>>, <<-80, -60>>}

\* The menu's buttons by layout (setupMainMenu, setupHelpMenu,
\* setupGameOverMenu).
MenuButtons(layout) ==
    CASE layout = "MAIN" -> {"start_game", "help"}
      [] layout = "HELP" -> {"back"}
      [] layout = "GAME_OVER" -> {"restart", "home"}

ButtonIds == {"start_game", "help", "back", "restart", "home"}

\* bodies.find(b => b.id === id), as an index.
IndexOf(bs, id) == CHOOSE i \in 1..Len(bs) : bs[i].id = id

HasBody(bs, id) == \E i \in 1..Len(bs) : bs[i].id = id

\* bodies.some(b => !b.isStatic && (|b.vx| > 0.1 || |b.vy| > 0.1))
isMovingOf(bs) ==
    \E i \in 1..Len(bs) :
        ~bs[i].isStatic
        /\ (Abs(bs[i].vx) > Unit \div 10 \/ Abs(bs[i].vy) > Unit \div 10)

Game_createMarble(id, x, y) ==
    Body(id, "circle", x, y, 0, 0, Num(1), Num(15), 0, 0, FALSE,
         MarbleRestitution, MarbleFriction, TRUE)

Game_obstacle(id, x, y, w, h) ==
    Body(id, "rectangle", Num(x), Num(y), 0, 0, 0, 0, Num(w), Num(h), TRUE,
         Unit \div 2, Unit \div 2, FALSE)

\* One outcome of generateObstacles: three rectangles.
Game_generateObstacles ==
    <<Game_obstacle("obs_0", 250, 100, 50, 60),
      Game_obstacle("obs_1", 400, 480, 80, 40),
      Game_obstacle("obs_2", 550, 120, 60, 60)>>

\* The Game's fields after construction (init() not yet finished).
GameInitial ==
    [state |-> "LOADING", loopStarted |-> FALSE, bodies |-> <<>>,
     currentTurn |-> "PLAYER", turnPhase |-> "AIMING", turnTimer |-> Num(30),
     isDragging |-> FALSE, dragStart |-> <<>>, dragCurrent |-> <<>>,
     playerStats |-> [grade |-> 1, exp |-> 0, handSpan |-> Num(120),
                      maxForce |-> Num(800)],
     aiThinkTime |-> 0, menu |-> "MAIN", settleTimers |-> 0,
     overTimers |-> <<>>, shots |-> 0]

Game_resetRound(g, first) ==
    [g EXCEPT !.turnPhase = "AIMING", !.currentTurn = first,
              !.turnTimer = Num(30), !.isDragging = FALSE, !.dragStart = <<>>,
              !.bodies = Game_generateObstacles
                  \o <<Game_createMarble("player_1", Num(100), Num(CanvasH) \div 2),
                       Game_createMarble("enemy_1", Num(CanvasW) - Num(100),
                                         Num(CanvasH) \div 2)>>]

Game_startGame(g, first) == Game_resetRound([g EXCEPT !.state = "PLAYING"], first)

Game_switchTurn(g) ==
    [g EXCEPT !.currentTurn = IF g.currentTurn = "PLAYER" THEN "AI" ELSE "PLAYER",
              !.turnPhase = "AIMING", !.turnTimer = Num(30), !.aiThinkTime = 0]

Game_shoot(g, id, vx, vy) ==
    LET i == IndexOf(g.bodies, id)
    IN  [g EXCEPT !.bodies[i].vx = vx, !.bodies[i].vy = vy,
                  !.turnPhase = "MOVING", !.shots = g.shots + 1]

Game_cancelDrag(g) ==
    [g EXCEPT !.isDragging = FALSE, !.dragStart = <<>>, !.dragCurrent = <<>>]

\* handleAITurn(dt); err and force are its two Math.random() draws.
Game_handleAITurn(g, dt, err, force) ==
    LET think == g.aiThinkTime + dt IN
    IF think > 3 * (Unit \div 2) THEN
        IF HasBody(g.bodies, "enemy_1") /\ HasBody(g.bodies, "player_1") THEN
            LET ai == g.bodies[IndexOf(g.bodies, "enemy_1")]
                pl == g.bodies[IndexOf(g.bodies, "player_1")]
                dx == pl.x - ai.x
                dy == pl.y - ai.y
                dist == Sqrt(Mul(dx, dx) + Mul(dy, dy))
                cosA == IF dist = 0 THEN Unit ELSE Div(dx, dist)
                sinA == IF dist = 0 THEN 0 ELSE Div(dy, dist)
                cosF == Mul(cosA, err[1]) - Mul(sinA, err[2])
                sinF == Mul(sinA, err[1]) + Mul(cosA, err[2])
            IN  Game_shoot([g EXCEPT !.aiThinkTime = 0], "enemy_1",
                           Mul(cosF, force), Mul(sinF, force))
        ELSE Game_switchTurn([g EXCEPT !.aiThinkTime = 0])
    ELSE [g EXCEPT !.aiThinkTime = think]

\* Game.update(dt), after the countdown step: the AI's move.
Game_updateAI(g, dt, err, force) ==
    IF g.currentTurn = "AI" /\ ~g.isDragging
    THEN Game_handleAITurn(g, dt, err, force)
    ELSE g

\* Game.update(dt), after the countdown's decrement.
Game_updateTimer(g, dt, err, force) ==
    Game_updateAI(IF g.turnTimer <= 0 THEN Game_switchTurn(g) ELSE g,
                  dt, err, force)

\* Game.update(dt), after physics.update: g holds the updated bodies.
Game_updatePhase(g, dt, err, force) ==
    IF g.turnPhase = "MOVING" THEN
        IF ~isMovingOf(g.bodies)
        THEN [g EXCEPT !.turnPhase = "SETTLING",
                       !.settleTimers = g.settleTimers + 1]
        ELSE g
    ELSE IF g.turnPhase = "AIMING" THEN
        Game_updateTimer([g EXCEPT !.turnTimer = g.turnTimer - dt],
                         dt, err, force)
    ELSE g

\* Game.update(dt)
Game_update(g, dt, err, force) ==
    Game_updatePhase(
        [g EXCEPT !.bodies = update(g.bodies, dt, [width |-> Num(CanvasW),
                                                   height |-> Num(CanvasH)]).bodies],
        dt, err, force)

Game_handleWin(g) ==
    LET st == g.playerStats
        e1 == st.exp + 20
        st1 == IF e1 >= 100
               THEN [grade |-> st.grade + 1, exp |-> 0,
                     handSpan |-> st.handSpan + Num(10),
                     maxForce |-> st.maxForce + Num(50)]
               ELSE [st EXCEPT !.exp = e1]
    IN  [g EXCEPT !.playerStats = st1, !.overTimers = Append(g.overTimers, TRUE)]

Game_handleLose(g) == [g EXCEPT !.overTimers = Append(g.overTimers, FALSE)]

Game_settleRound(g) ==
    IF HasBody(g.bodies, "player_1") /\ HasBody(g.bodies, "enemy_1") THEN
        IF checkDistance(g.bodies[IndexOf(g.bodies, "player_1")],
                         g.bodies[IndexOf(g.bodies, "enemy_1")],
                         g.playerStats.handSpan)
        THEN IF g.currentTurn = "PLAYER" THEN Game_handleWin(g)
             ELSE Game_handleLose(g)
        ELSE Game_switchTurn(g)
    ELSE Game_switchTurn(g)

\* menu.handleInput(x, y) with the pointer on button btn ("none": on none);
\* first is resetRound's Math.random() draw.
Game_menuInput(g, btn, first) ==
    IF btn \notin MenuButtons(g.menu) THEN g
    ELSE CASE btn \in {"start_game", "restart"} -> Game_startGame(g, first)
           [] btn = "help" -> [g EXCEPT !.menu = "HELP"]
           [] btn \in {"back", "home"} -> [g EXCEPT !.menu = "MAIN"]

Game_handlePointerDown(g, x, y, btn, first) ==
    IF g.state # "PLAYING" THEN Game_menuInput(g, btn, first)
    ELSE IF g.currentTurn = "PLAYER" /\ g.turnPhase = "AIMING"
            /\ HasBody(g.bodies, "player_1") THEN
        LET p == g.bodies[IndexOf(g.bodies, "player_1")]
            dist == Sqrt(Mul(x - p.x, x - p.x) + Mul(y - p.y, y - p.y))
        IN  IF dist < Mul(p.radius, 5 * (Unit \div 2))
            THEN [g EXCEPT !.isDragging = TRUE, !.dragStart = <<p.x, p.y>>,
                           !.dragCurrent = <<x, y>>]
            ELSE g
    ELSE g

Game_handlePointerMove(g, x, y) ==
    IF g.isDragging /\ g.dragStart # <<>>
    THEN [g EXCEPT !.dragCurrent = <<x, y>>]
    ELSE g

Game_handlePointerUp(g, x, y) ==
    IF g.isDragging /\ g.dragStart # <<>> THEN
        LET dx == g.dragStart[1] - x
            dy == g.dragStart[2] - y
            dist == Sqrt(Mul(dx, dx) + Mul(dy, dy))
            power == Div(Min(dist, Num(200)), Num(200))
            force == Mul(power, g.playerStats.maxForce)
        IN  IF dist > Num(15) THEN
                IF HasBody(g.bodies, "player_1")
                THEN Game_cancelDrag(
                         Game_shoot(g, "player_1", Mul(Div(dx, dist), force),
                                    Mul(Div(dy, dist), force)))
                ELSE Game_cancelDrag(g)
            ELSE Game_cancelDrag(g)
    ELSE g

\* The pointer's position for an offset from the player's marble.
PointAt(g, off) ==
    LET p == g.bodies[IndexOf(g.bodies, "player_1")]
    IN  <<p.x + Num(off[1]), p.y + Num(off[2])>>

InitGame ==
    /\ game = GameInitial
    /\ IdleImpulse /\ IdlePhys /\ IdleApp /\ IdleSide

\* init(): the assets are loaded; the loop starts.
GameInitDone ==
    /\ ~game.loopStarted
    /\ game' = [game EXCEPT !.state = "MENU", !.menu = "MAIN",
                            !.loopStarted = TRUE]
    /\ UNCHANGED <<impulseVars, physVars, appVars, sideVars>>

\* loop(timestamp)
GameFrame ==
    /\ game.loopStarted
    /\ game.state = "PLAYING"
    /\ \E dt \in GameDtSet, err \in AiErrorSet, force \in AiForceSet :
         /\ game' = Game_update(game, dt, err, force)
         /\ game'.shots <= MaxShots
    /\ UNCHANGED <<impulseVars, physVars, appVars, sideVars>>

\* mousedown / touchstart
GamePointerDown ==
    /\ \/ /\ game.state # "PLAYING"
          /\ \E btn \in ButtonIds \cup {"none"}, first \in {"PLAYER", "AI"} :
               game' = Game_handlePointerDown(game, 0, 0, btn, first)
       \/ /\ game.state = "PLAYING"
          /\ \E off \in PointerDownOffsets :
               game' = Game_handlePointerDown(game, PointAt(game, off)[1],
                                              PointAt(game, off)[2], "none", "PLAYER")
    /\ UNCHANGED <<impulseVars, physVars, appVars, sideVars>>

\* mousemove / touchmove
GamePointerMove ==
    /\ game.bodies # <<>>
    /\ \E off \in PointerPullOffsets :
         game' = Game_handlePointerMove(game, PointAt(game, off)[1],
                                        PointAt(game, off)[2])
    /\ UNCHANGED <<impulseVars, physVars, appVars, sideVars>>

\* mouseup
GamePointerUp ==
    /\ game.bodies # <<>>
    /\ \E off \in PointerPullOffsets :
         /\ game' = Game_handlePointerUp(game, PointAt(game, off)[1],
                                         PointAt(game, off)[2])
         /\ game'.shots <= MaxShots
    /\ UNCHANGED <<impulseVars, physVars, appVars, sideVars>>

\* touchend
GameTouchEnd ==
    /\ game.isDragging /\ game.dragCurrent # <<>>
    /\ game' = Game_handlePointerUp(game, game.dragCurrent[1], game.dragCurrent[2])
    /\ game'.shots <= MaxShots
    /\ UNCHANGED <<impulseVars, physVars, appVars, sideVars>>

\* mouseleave
GameMouseLeave ==
    /\ game.isDragging
    /\ game' = Game_cancelDrag(game)
    /\ UNCHANGED <<impulseVars, physVars, appVars, sideVars>>

\* The timeout set by update fires: settleRound().
GameSettleTimer ==
    /\ game.settleTimers > 0
    /\ game' = Game_settleRound([game EXCEPT !.settleTimers = game.settleTimers - 1])
    /\ UNCHANGED <<impulseVars, physVars, appVars, sideVars>>

\* The timeout set by handleWin / handleLose fires.
GameOverTimer ==
    /\ game.overTimers # <<>>
    /\ game' = [game EXCEPT !.overTimers = Tail(game.overTimers),
                            !.menu = "GAME_OVER", !.state = "GAME_OVER"]
    /\ UNCHANGED <<impulseVars, physVars, appVars, sideVars>>

NextGame ==
    \/ GameInitDone
    \/ GameFrame
    \/ GamePointerDown
    \/ GamePointerMove
    \/ GamePointerUp
    \/ GameTouchEnd
    \/ GameMouseLeave
    \/ GameSettleTimer
    \/ GameOverTimer

SpecGame == InitGame /\ [][NextGame]_vars

\* A step is a launch of the player's marble by a release of the pointer.
PlayerLaunch == (GamePointerUp \/ GameTouchEnd) /\ game'.shots = game.shots + 1

\* C5: a pointer-up launches the player's marble only if currentTurn is
\* PLAYER and turnPhase is AIMING at the moment of release (a countdown that
\* expired during the drag included).
C5_LaunchOnlyOnOwnTurn ==
    [][PlayerLaunch => (game.currentTurn = "PLAYER" /\ game.turnPhase = "AIMING")]_vars

\* ------------------------------------------------------------------------
\* Spec: RetroMarbleGame with EventManager, MenuSystem and DataBus
\* (src/src/game.ts, src/src/eventmanager.ts, src/src/databus.ts)
\* ------------------------------------------------------------------------

\* databus.config; the screen that initConfig reads is the default 375 x 667.
WIDTH == 375

HEIGHT == 667

PLAYER_RADIUS == 15

ENEMY_RADIUS == 15

TURN_TIME == 30

\* databus.gravity (0.6) and databus.airResistance (0.99).
gravity == 6 * (Unit \div 10)

airResistance == Unit - (Unit \div 100)

\* The launches of a behaviour.
MaxLaunches == 1

\* The frames a match spends waiting for the player.
MaxIdle == 1

\* The resetGame calls after the constructor's.
MaxResets == 1

\* The togglePause calls of a behaviour.
MaxToggles == 2

\* The setTimeout(settleRound) callbacks pending at a time.
MaxPending == 2

\* The frame's dt, (current - lastTime) / 1000, which gameLoop does not cap:
\* 0.1 s, and while the AI's countdown runs a frame that follows a suspension
\* of TURN_TIME seconds, so that the countdown is crossed in one frame.
FrameDtSet(s) ==
    IF s.main.state = "PLAYING" /\ s.main.turn = "AI"
    THEN {Num(TURN_TIME)}
    ELSE {Unit \div 10}

\* executeAITurn's error (Math.random() - 0.5) * 0.3 as <<cos, sin>>:
\* 0 rad and 0.14 rad.
AiAimErrorSet == {<<Unit, 0>>, <<Unit - 1, 14>>}

createBall(id, x, y, type) ==
    Body(id, "circle", x, y, 0, 0, Num(1),
         IF type = "player" THEN Num(PLAYER_RADIUS) ELSE Num(ENEMY_RADIUS),
         0, 0, FALSE, 7 * (Unit \div 10), 2 * (Unit \div 100), TRUE)

createObstacle(id, x, y, width, height) ==
    Body(id, "rectangle", Num(x), Num(y), 0, 0, 0, 0, Num(width), Num(height),
         TRUE, Unit \div 2, Unit \div 2, FALSE)

\* The outcomes of resetGame's obstacle loop: three rectangles that pass its
\* conflict test against the two balls.
ObstacleLayouts ==
    {<<createObstacle("obstacle_0", 150, 120, 50, 50),
       createObstacle("obstacle_1", 200, 500, 60, 40),
       createObstacle("obstacle_2", 90, 200, 40, 40)>>}

\* databus.reset()
DataBus_reset ==
    [balls |-> <<>>, obstacles |-> <<>>, playerGrade |-> 1, playerExp |-> 0,
     handSpan |-> Num(120), maxForce |-> Num(800)]

\* Mutant of addExpLoop: at most one grade is gained by a call.
addExpOnce(d) ==
    IF d.playerExp >= 100
    THEN [d EXCEPT !.playerExp = d.playerExp - 100,
                   !.playerGrade = d.playerGrade + 1,
                   !.handSpan = d.handSpan + Num(5),
                   !.maxForce = d.maxForce + Num(50)]
    ELSE d

\* databus.addExp(amount)
RECURSIVE addExpLoop(_)
addExpLoop(d) ==
    IF d.playerExp >= 100
    THEN addExpLoop([d EXCEPT !.playerExp = d.playerExp - 100,
                              !.playerGrade = d.playerGrade + 1,
                              !.handSpan = d.handSpan + Num(5),
                              !.maxForce = d.maxForce + Num(50)])
    ELSE d

addExp(d, amount) == addExpLoop([d EXCEPT !.playerExp = d.playerExp + amount])

getPlayerBall(d) == d.balls[IndexOf(d.balls, "player")]

getEnemyBall(d) == d.balls[IndexOf(d.balls, "enemy")]

\* RetroMarbleGame.setState
setState(s, state) == [s EXCEPT !.main.state = state]

\* RetroMarbleGame.setMenuState
setMenuState(s, state) ==
    IF state # "NONE"
    THEN [s EXCEPT !.main.menuState = state, !.main.state = "MENU"]
    ELSE [s EXCEPT !.main.menuState = state]

\* Mutant of switchTurn: the turn stays with the side that has played.
switchTurnKeep(s) == s

\* RetroMarbleGame.switchTurn
switchTurn(s) ==
    [s EXCEPT !.main.turn = IF s.main.turn = "PLAYER" THEN "AI" ELSE "PLAYER"]

\* RetroMarbleGame.resetTurnTimer
resetTurnTimer(s) == [s EXCEPT !.main.turnTimer = Num(TURN_TIME)]

\* RetroMarbleGame.resetGame; first and layout are its Math.random() draws.
\* The callbacks still pending belong to the match that ends here.
resetGame(s, first, layout) ==
    [s EXCEPT !.databus =
                  [DataBus_reset EXCEPT
                     !.balls = <<createBall("player", Num(100), Num(HEIGHT) \div 2,
                                            "player"),
                                 createBall("enemy", Num(WIDTH) - Num(100),
                                            Num(HEIGHT) \div 2, "enemy")>>,
                     !.obstacles = layout],
              !.main.turn = first,
              !.main.turnTimer = Num(TURN_TIME),
              !.timers = [i \in 1..Len(s.timers) |-> TRUE],
              !.ghost = [s.ghost EXCEPT !.idle = 0, !.over = FALSE,
                                        !.resets = s.ghost.resets + 1]]

\* MenuSystem: a button.
Button(id, x, y, w, h) == [id |-> id, x |-> x, y |-> y, w |-> w, h |-> h]

setupMainMenu ==
    <<Button("start_game", (Num(WIDTH) - Num(220)) \div 2, Mul(Num(HEIGHT), 55),
             Num(220), Num(60)),
      Button("help", (Num(WIDTH) - Num(220)) \div 2,
             Mul(Num(HEIGHT), 55) + Num(60) + Num(25), Num(220), Num(60))>>

setupHelpMenu ==
    <<Button("back", (Num(WIDTH) - Num(140)) \div 2, Num(HEIGHT) - Num(80),
             Num(140), Num(50))>>

setupGameOverMenu ==
    <<Button("restart", (Num(WIDTH) - Num(200)) \div 2, Mul(Num(HEIGHT), 55),
             Num(200), Num(55)),
      Button("home", (Num(WIDTH) - Num(200)) \div 2,
             Mul(Num(HEIGHT), 55) + Num(55) + Num(20), Num(200), Num(55))>>

showMainMenu(s) ==
    [s EXCEPT !.menu = [buttons |-> setupMainMenu, gameOverInfo |-> <<>>]]

showHelpMenu(s) ==
    [s EXCEPT !.menu = [buttons |-> setupHelpMenu, gameOverInfo |-> <<>>]]

showGameOver(s, win) ==
    [s EXCEPT !.menu = [buttons |-> setupGameOverMenu, gameOverInfo |-> <<win>>]]

\* The callbacks of setupMenuCallbacks, behind each button's onClick.
onClick(s, id, first, layout) ==
    CASE id = "start_game" ->
           setMenuState(resetGame(setState(s, "PLAYING"), first, layout), "NONE")
      [] id = "restart" -> resetGame(setState(s, "PLAYING"), first, layout)
      [] id = "help" -> setMenuState(showHelpMenu(s), "HELP")
      [] id \in {"back", "home"} -> setMenuState(showMainMenu(s), "MAIN")

InButton(btn, x, y) ==
    x >= btn.x /\ x <= btn.x + btn.w /\ y >= btn.y /\ y <= btn.y + btn.h

\* menu.handleInput(x, y): the last button under the point is clicked.
HitButtons(s, x, y) ==
    {i \in 1..Len(s.menu.buttons) : InButton(s.menu.buttons[i], x, y)}

MaxOf(S) == CHOOSE i \in S : \A j \in S : j <= i

handleInput(s, x, y, first, layout) ==
    IF HitButtons(s, x, y) = {} THEN s
    ELSE onClick(s, s.menu.buttons[MaxOf(HitButtons(s, x, y))].id, first, layout)

\* EventManager.handleRestart
handleRestart(s, first, layout) ==
    setMenuState(resetGame(setState(s, "PLAYING"), first, layout), "NONE")

\* EventManager.checkRestartButtonClick
checkRestartButtonClick(s, x, y) ==
    /\ s.main.restartButtonRect # <<>>
    /\ x >= s.main.restartButtonRect.x
    /\ x <= s.main.restartButtonRect.x + s.main.restartButtonRect.width
    /\ y >= s.main.restartButtonRect.y
    /\ y <= s.main.restartButtonRect.y + s.main.restartButtonRect.height

\* The distance from (x, y) to a ball's centre.
TouchDist(ball, x, y) ==
    Sqrt(Mul(x - ball.x, x - ball.x) + Mul(y - ball.y, y - ball.y))

\* EventManager.handleGameTouchStart
handleGameTouchStart(s, x, y) ==
    IF (s.main.state # "AIMING" /\ s.main.state # "PLAYING")
       \/ s.main.turn # "PLAYER" THEN s
    ELSE IF ~HasBody(s.databus.balls, "player") THEN s
    ELSE IF TouchDist(getPlayerBall(s.databus), x, y)
              < 2 * getPlayerBall(s.databus).radius
    THEN setState([s EXCEPT !.events =
                       [isDragging |-> TRUE,
                        dragStart |-> <<getPlayerBall(s.databus).x,
                                        getPlayerBall(s.databus).y>>,
                        dragEnd |-> <<x, y>>]], "AIMING")
    ELSE s

\* handleTouchStart, after handleGameTouchStart: the restart button.
handleTouchStartRestart(s, x, y, first, layout) ==
    IF checkRestartButtonClick(s, x, y) THEN handleRestart(s, first, layout)
    ELSE s

\* EventManager.handleTouchStart
handleTouchStart(s, x, y, first, layout) ==
    IF s.main.menuState \in {"MAIN", "HELP", "GAME_OVER"}
       /\ HitButtons(s, x, y) # {}
    THEN handleInput(s, x, y, first, layout)
    ELSE IF s.main.state \in {"PLAYING", "AIMING"}
    THEN handleTouchStartRestart(handleGameTouchStart(s, x, y), x, y, first, layout)
    ELSE s

\* EventManager.handleTouchMove
handleTouchMove(s, x, y) ==
    IF ~s.events.isDragging THEN s
    ELSE [s EXCEPT !.events.dragEnd = <<x, y>>]

\* History: the side that launches in state s, and the settleRound
\* evaluations and resets made so far.
LaunchBy(s, side) ==
    [side |-> side, flips |-> s.ghost.flips, over |-> s.ghost.over,
     resets |-> s.ghost.resets]

\* The launch of handleGameTouchEnd, for a drag of length dist > 15.
launchPlayer(s, dx, dy, dist) ==
    resetTurnTimer(setState(
        [s EXCEPT
           !.databus.balls[IndexOf(s.databus.balls, "player")].vx =
               Mul(Mul(Div(dx, dist),
                       Mul(Div(Min(dist, Num(900)), Num(900)), s.databus.maxForce)),
                   Unit \div 2),
           !.databus.balls[IndexOf(s.databus.balls, "player")].vy =
               Mul(Mul(Div(dy, dist),
                       Mul(Div(Min(dist, Num(900)), Num(900)), s.databus.maxForce)),
                   Unit \div 2),
           !.ghost.launches = s.ghost.launches + 1,
           !.ghost.lastLaunch = LaunchBy(s, "PLAYER")],
        "MOVING"))

\* EventManager.handleGameTouchEnd
handleGameTouchEnd(s) ==
    IF s.events.dragStart = <<>> \/ s.events.dragEnd = <<>> THEN s
    ELSE IF ~HasBody(s.databus.balls, "player") THEN s
    ELSE LET dx == s.events.dragStart[1] - s.events.dragEnd[1]
             dy == s.events.dragStart[2] - s.events.dragEnd[2]
             dist == Sqrt(Mul(dx, dx) + Mul(dy, dy))
         IN  IF dist > Num(15) THEN launchPlayer(s, dx, dy, dist) ELSE s

\* EventManager.resetDragState
resetDragState(s) ==
    [s EXCEPT !.events = [isDragging |-> FALSE, dragStart |-> <<>>,
                          dragEnd |-> <<>>]]

\* EventManager.handleTouchEnd
handleTouchEnd(s) ==
    IF ~s.events.isDragging THEN s
    ELSE resetDragState(handleGameTouchEnd(s))

\* The launch of executeAITurn along <<cosF, sinF>> with the force.
launchEnemyAndPlayer(s, cosF, sinF, force) ==
    resetTurnTimer(setState(
        [s EXCEPT
           !.databus.balls[IndexOf(s.databus.balls, "enemy")].vx =
               Mul(Mul(cosF, force), Unit \div 2),
           !.databus.balls[IndexOf(s.databus.balls, "enemy")].vy =
               Mul(Mul(sinF, force), Unit \div 2),
           !.databus.balls[IndexOf(s.databus.balls, "player")].vx =
               Mul(Mul(cosF, force), Unit \div 2),
           !.ghost.launches = s.ghost.launches + 1,
           !.ghost.lastLaunch = LaunchBy(s, "AI")],
        "MOVING"))

\* executeAITurn: the launch of the enemy ball.
launchEnemy(s, cosF, sinF, force) ==
    resetTurnTimer(setState(
        [s EXCEPT
           !.databus.balls[IndexOf(s.databus.balls, "enemy")].vx =
               Mul(Mul(cosF, force), Unit \div 2),
           !.databus.balls[IndexOf(s.databus.balls, "enemy")].vy =
               Mul(Mul(sinF, force), Unit \div 2),
           !.ghost.launches = s.ghost.launches + 1,
           !.ghost.lastLaunch = LaunchBy(s, "AI")],
        "MOVING"))

\* EventManager.executeAITurn; err is <<cos, sin>> of its random error.
executeAITurn(s, err) ==
    IF ~HasBody(s.databus.balls, "enemy") \/ ~HasBody(s.databus.balls, "player")
    THEN s
    ELSE LET dx == getPlayerBall(s.databus).x - getEnemyBall(s.databus).x
             dy == getPlayerBall(s.databus).y - getEnemyBall(s.databus).y
             dist == Sqrt(Mul(dx, dx) + Mul(dy, dy))
             cosA == IF dist = 0 THEN Unit ELSE Div(dx, dist)
             sinA == IF dist = 0 THEN 0 ELSE Div(dy, dist)
         IN  launchEnemy(s, Mul(cosA, err[1]) - Mul(sinA, err[2]),
                         Mul(sinA, err[1]) + Mul(cosA, err[2]),
                         Min(Num(600), Mul(dist, 3 * (Unit \div 2))))

\* EventManager.handleWin
handleWin(s) ==
    showGameOver(
        setMenuState([s EXCEPT !.databus = addExp(s.databus, 20),
                               !.ghost.over = TRUE], "GAME_OVER"),
        TRUE)

\* EventManager.handleLose
handleLose(s) ==
    showGameOver(setMenuState([s EXCEPT !.ghost.over = TRUE], "GAME_OVER"), FALSE)

\* EventManager.togglePause
togglePause(s) ==
    IF s.main.state \in {"PLAYING", "MOVING", "SETTLING"}
    THEN setState(setMenuState(s, "MAIN"), "MENU")
    ELSE IF s.main.menuState = "MAIN" /\ s.main.state = "MENU"
    THEN setState(setMenuState(s, "NONE"), "PLAYING")
    ELSE s

\* physics.checkDistance(player, enemy, handSpan)
isCaptured(s) ==
    checkDistance(getPlayerBall(s.databus), getEnemyBall(s.databus),
                  s.databus.handSpan)

\* EventManager.settleRound
settleRound(s) ==
    IF ~HasBody(s.databus.balls, "player") \/ ~HasBody(s.databus.balls, "enemy")
    THEN s
    ELSE IF isCaptured(s)
    THEN IF s.main.turn = "PLAYER" THEN handleWin(s) ELSE handleLose(s)
    ELSE resetTurnTimer(setState(
             switchTurn([s EXCEPT !.ghost.flips = s.ghost.flips + 1]), "PLAYING"))

PlayingStates == {"PLAYING", "AIMING", "MOVING", "SETTLING"}

\* update: gravity and air resistance on one ball.
applyEffects(ball, dt) ==
    IF ball.isStatic THEN ball
    ELSE [ball EXCEPT !.vx = Mul(ball.vx, airResistance),
                      !.vy = Mul(ball.vy + Mul(gravity, dt), airResistance)]

\* The balls among the bodies that physics.update has worked on.
ballsOf(bs, n, dt) == [i \in 1..n |-> applyEffects(bs[i], dt)]

\* update: physics.update on the balls and obstacles, then the effects.
updatePhysics(s, dt) ==
    [s EXCEPT !.databus.balls =
        ballsOf(update(s.databus.balls \o s.databus.obstacles, dt,
                       [width |-> Num(WIDTH), height |-> Num(HEIGHT)]).bodies,
                Len(s.databus.balls), dt)]

\* update: MOVING and nothing moves any more: SETTLING, and the callback.
updateSettle(s) ==
    IF s.main.state = "MOVING" /\ ~isMovingOf(s.databus.balls)
    THEN [s EXCEPT !.main.state = "SETTLING", !.timers = Append(s.timers, FALSE)]
    ELSE s

\* update: the AI's countdown has been decremented.
updateAITimer(s, err) ==
    IF s.main.turnTimer <= 0 THEN executeAITurn(s, err) ELSE s

\* update: the AI's turn.
updateAI(s, dt, err) ==
    IF s.main.state = "PLAYING" /\ s.main.turn = "AI"
    THEN updateAITimer([s EXCEPT !.main.turnTimer = s.main.turnTimer - dt], err)
    ELSE s

\* A frame in which the match only waits: for the player, or for a pending
\* settleRound callback (100 ms, the time of one frame).
IsIdle(s) ==
    \/ s.timers # <<>>
    \/ /\ s.main.state \in {"PLAYING", "AIMING"}
       /\ ~(s.main.state = "PLAYING" /\ s.main.turn = "AI")

\* RetroMarbleGame.update(dt)
RetroMarbleGame_update(s, dt, err) ==
    updateAI(IF s.main.state \in PlayingStates
             THEN updateSettle(updatePhysics(
                      [s EXCEPT !.ghost.idle = IF IsIdle(s) THEN s.ghost.idle + 1
                                               ELSE s.ghost.idle], dt))
             ELSE s,
             dt, err)

\* The state of the program as one record, and back.
App ==
    [main |-> main, events |-> events, menu |-> menu, databus |-> databus,
     timers |-> timers, ghost |-> ghost]

SetApp(t) ==
    /\ main' = t.main /\ events' = t.events /\ menu' = t.menu
    /\ databus' = t.databus /\ timers' = t.timers /\ ghost' = t.ghost

otherVars == <<impulseVars, physVars, game, sideVars>>

\* The fields after the constructor: resetGame has run, and the first
\* gameLoop call has rendered the restart button.
AppInitial ==
    [main |-> [state |-> "MENU", turn |-> "PLAYER", turnTimer |-> Num(TURN_TIME),
               menuState |-> "MAIN",
               restartButtonRect |->
                   [x |-> Num(WIDTH) - Num(100) - Num(20), y |-> Num(20),
                    width |-> Num(100), height |-> Num(40)]],
     events |-> [isDragging |-> FALSE, dragStart |-> <<>>, dragEnd |-> <<>>],
     menu |-> [buttons |-> setupMainMenu, gameOverInfo |-> <<>>],
     databus |-> DataBus_reset,
     timers |-> <<>>,
     ghost |-> [launches |-> 0, idle |-> 0, toggles |-> 0, over |-> FALSE,
                resets |-> 0, flips |-> 0,
                lastLaunch |-> [side |-> "NONE", flips |-> 0, over |-> FALSE,
                                resets |-> 0]]]

Init ==
    /\ \E first \in {"PLAYER", "AI"}, layout \in ObstacleLayouts :
         /\ main = resetGame(AppInitial, first, layout).main
         /\ databus = resetGame(AppInitial, first, layout).databus
    /\ events = AppInitial.events
    /\ menu = AppInitial.menu
    /\ timers = AppInitial.timers
    /\ ghost = [AppInitial.ghost EXCEPT !.resets = 0]
    /\ IdleImpulse /\ IdlePhys /\ IdleGame /\ IdleSide

\* Where a touch starts: on the player's ball, on the menus' buttons (start or
\* restart, help or home), on the restart button of the game screen.
TouchStartPoints ==
    {<<getPlayerBall(databus).x, getPlayerBall(databus).y>>,
     <<Num(187), Num(396)>>, <<Num(187), Num(480)>>, <<Num(300), Num(40)>>}

\* Where a touch moves to: the left edge of the screen, 100 px from where
\* the player's ball starts.
TouchMovePoints == {<<0, Num(HEIGHT) \div 2>>}

\* gameLoop: update(dt) and render().
Frame ==
    /\ main.state \in PlayingStates
    /\ IsIdle(App) => ghost.idle < MaxIdle
    /\ \E dt \in FrameDtSet(App), err \in AiAimErrorSet :
         LET t == RetroMarbleGame_update(App, dt, err)
         IN  /\ t.ghost.launches <= MaxLaunches
             /\ Len(t.timers) <= MaxPending
             /\ SetApp(t)
    /\ UNCHANGED otherVars

\* wx.onTouchStart
TouchStart ==
    /\ \E pt \in TouchStartPoints, first \in {"PLAYER", "AI"},
          layout \in ObstacleLayouts :
         LET t == handleTouchStart(App, pt[1], pt[2], first, layout)
         IN  t.ghost.resets <= MaxResets /\ SetApp(t)
    /\ UNCHANGED otherVars

\* wx.onTouchMove
TouchMove ==
    /\ events.isDragging
    /\ \E pt \in TouchMovePoints : SetApp(handleTouchMove(App, pt[1], pt[2]))
    /\ UNCHANGED otherVars

\* wx.onTouchEnd
TouchEnd ==
    /\ events.isDragging
    /\ LET t == handleTouchEnd(App)
       IN  t.ghost.launches <= MaxLaunches /\ SetApp(t)
    /\ UNCHANGED otherVars

\* wx.togglePause
TogglePause ==
    /\ ghost.toggles < MaxToggles
    /\ SetApp(togglePause([App EXCEPT !.ghost.toggles = ghost.toggles + 1]))
    /\ UNCHANGED otherVars

\* The callback of setTimeout(() => settleRound(), 100) runs.
SettleTimer ==
    /\ timers # <<>>
    /\ SetApp(settleRound([App EXCEPT !.timers = Tail(timers)]))
    /\ UNCHANGED otherVars

Next ==
    \/ Frame
    \/ TouchStart
    \/ TouchMove
    \/ TouchEnd
    \/ TogglePause
    \/ SettleTimer

Spec == Init /\ [][Next]_vars

\* ------------------------------------------------------------------------
\* SpecDataBus: the player's progress in DataBus under addExp and reset
\* ------------------------------------------------------------------------

\* The grade up to which addExp is followed.
MaxGrade == 6

\* The amounts of addExp: handleWin's 20, and 0, 35 and 250.
ExpAmounts == {0, 20, 35, 250}

\* The DataBus after construction (its field initialisers).
InitDataBus ==
    /\ databus = DataBus_reset
    /\ main = <<>> /\ events = <<>> /\ menu = <<>>
    /\ timers = <<>> /\ ghost = <<>>
    /\ IdleImpulse /\ IdlePhys /\ IdleGame /\ IdleSide

\* databus.addExp(n), as handleWin calls it
AddExp(n) ==
    /\ databus # <<>>
    /\ addExp(databus, n).playerGrade <= MaxGrade
    /\ databus' = addExp(databus, n)
    /\ UNCHANGED <<impulseVars, physVars, game, main, events, menu, timers, ghost, sideVars>>

\* databus.reset(), as resetGame calls it
DataBusReset ==
    /\ databus # <<>>
    /\ databus' = DataBus_reset
    /\ UNCHANGED <<impulseVars, physVars, game, main, events, menu, timers, ghost, sideVars>>

NextDataBus ==
    \/ \E n \in ExpAmounts : AddExp(n)
    \/ DataBusReset

SpecDataBus == InitDataBus /\ [][NextDataBus]_vars

\* C19: addExp(n), n >= 0, called with 0 <= playerExp < 100, leaves
\* 0 <= playerExp < 100, the new playerExp being (old playerExp + n) mod 100,
\* raises playerGrade by floor((old playerExp + n) / 100), and raises
\* handSpan by 5 and maxForce by 50 for each grade gained.
C19_AddExpCarries ==
    [][\A n \in ExpAmounts : AddExp(n) =>
         LET gained == (databus.playerExp + n) \div 100
         IN  /\ databus'.playerExp = (databus.playerExp + n) % 100
             /\ 0 <= databus'.playerExp /\ databus'.playerExp < 100
             /\ databus'.playerGrade = databus.playerGrade + gained
             /\ databus'.handSpan = databus.handSpan + Num(5) * gained
             /\ databus'.maxForce = databus.maxForce + Num(50) * gained]_vars

\* C19 witness: addExp has carried experience over: grade 4 with hand span
\* 135, max force 950 and 5 experience (0 + 250 + 35 + 20).
C19_Witness ==
    /\ databus # <<>>
    /\ databus.playerGrade = 4 /\ databus.playerExp = 5
    /\ databus.handSpan = Num(135) /\ databus.maxForce = Num(950)

\* C20: playerGrade, handSpan and maxForce never decrease, resets of the
\* match included.
C20_ProgressNeverDecreases ==
    [][/\ databus'.playerGrade >= databus.playerGrade
       /\ databus'.handSpan >= databus.handSpan
       /\ databus'.maxForce >= databus.maxForce]_vars

\* ------------------------------------------------------------------------
\* The claims on the EventManager-based controller
\* ------------------------------------------------------------------------

\* settleRound is about to run on both balls.
SettleRuns == timers # <<>> /\ HasBody(databus.balls, "player")
              /\ HasBody(databus.balls, "enemy")

OtherSide(turn) == IF turn = "PLAYER" THEN "AI" ELSE "PLAYER"

\* The state in which the frame's update reaches its AI branch: the
\* physics step and the settle test are done.
beforeAITurn(s, dt) ==
    IF s.main.state \in PlayingStates THEN updateSettle(updatePhysics(s, dt)) ELSE s

\* Of the balls, nothing but the enemy ball's velocity differs.
OnlyEnemyVelocity(before, after) ==
    /\ Len(after) = Len(before)
    /\ \A i \in 1..Len(before) :
         IF before[i].id = "enemy"
         THEN after[i] = [before[i] EXCEPT !.vx = after[i].vx, !.vy = after[i].vy]
         ELSE after[i] = before[i]

\* C24: an AI launch happens only when the turn is AI and the state is
\* PLAYING; it changes the velocity of the enemy ball only (never the player
\* ball, never the turn), sets the state to MOVING and resets the countdown
\* to TURN_TIME, the same state change a player launch makes.
C24_AiLaunch ==
    [][/\ (Frame /\ ghost'.launches # ghost.launches)
            => /\ main.turn = "AI" /\ main.state = "PLAYING"
               /\ main'.turn = main.turn
               /\ main'.state = "MOVING"
               /\ main'.turnTimer = Num(TURN_TIME)
               /\ databus'.obstacles = databus.obstacles
               /\ \E dt \in FrameDtSet(App) :
                    OnlyEnemyVelocity(beforeAITurn(App, dt).databus.balls,
                                      databus'.balls)
       /\ (TouchEnd /\ ghost'.launches # ghost.launches)
            => /\ main'.turn = main.turn
               /\ main'.state = "MOVING"
               /\ main'.turnTimer = Num(TURN_TIME)]_vars

\* C24 witness: the AI has launched: its ball moves, the state is MOVING,
\* the turn is still the AI's and the countdown is full.
C24_Witness ==
    /\ ghost.launches > 0
    /\ main.state = "MOVING" /\ main.turn = "AI"
    /\ main.turnTimer = Num(TURN_TIME)
    /\ getEnemyBall(databus).vx # 0
    /\ getPlayerBall(databus).vx = 0

C2_CaptureEndsInGameOver ==
    [][(SettleTimer /\ SettleRuns /\ isCaptured(App))
       => (/\ menu'.gameOverInfo = <<main.turn = "PLAYER">>
           /\ main'.state = "GAME_OVER")]_vars

\* C3: whenever settleRound runs with the two balls farther apart than
\* handSpan, the turn flips to the other side, the state is PLAYING, in which
\* that side may launch, the countdown is TURN_TIME again, and neither a win
\* nor a loss is declared.
C3_NoCaptureFlipsTurn ==
    [][(SettleTimer /\ SettleRuns /\ ~isCaptured(App))
       => (/\ main'.turn = OtherSide(main.turn)
           /\ main'.state = "PLAYING"
           /\ main'.turnTimer = Num(TURN_TIME)
           /\ ghost'.over = ghost.over
           /\ menu' = menu
           /\ main'.menuState = main.menuState
           /\ databus' = databus)]_vars

\* C3 witness: a settleRound without capture has run and has handed the turn
\* to the AI, whose countdown is full.
C3_Witness ==
    /\ ghost.flips > 0
    /\ timers = <<>>
    /\ main.state = "PLAYING" /\ main.turn = "AI"
    /\ main.turnTimer = Num(TURN_TIME)
    /\ ~ghost.over

\* C4: a touch-end launches the player's ball only when the turn is PLAYER and
\* the state is AIMING; in every other case it changes no ball velocity, no
\* state and no turn.
C4_TouchEndLaunchesOnlyWhenAiming ==
    [][(TouchEnd /\ ~(main.turn = "PLAYER" /\ main.state = "AIMING"))
       => (/\ databus'.balls = databus.balls
           /\ main'.state = main.state
           /\ main'.turn = main.turn)]_vars

\* The frame that is about to run takes the active side's countdown to zero.
CountdownExpires ==
    /\ main.state = "PLAYING"
    /\ main.turnTimer > 0
    /\ \A dt \in FrameDtSet(App) : main.turnTimer - dt <= 0

\* C6: when the active side has not launched and its countdown reaches zero,
\* the turn flips to the other side and no ball is launched.
C6_TimeoutFlipsTurn ==
    [][(Frame /\ CountdownExpires)
       => (/\ main'.turn = OtherSide(main.turn)
           /\ ghost'.launches = ghost.launches
           /\ main'.state # "MOVING")]_vars

\* C7: resetGame never runs while a settleRound callback is pending: no
\* pending callback is one that a match before the last resetGame scheduled.
C7_NoCallbackAcrossReset ==
    \A i \in 1..Len(timers) : ~timers[i]

\* C8: after a win or a loss, and until resetGame runs, no ball moves, no
\* ball is launched and the turn does not switch.
C8_GameOverIsTerminal ==
    [][(ghost.over /\ ghost'.over /\ ghost'.resets = ghost.resets)
       => (/\ databus'.balls = databus.balls
           /\ main'.turn = main.turn
           /\ ghost'.launches = ghost.launches
           /\ main'.state \notin PlayingStates)]_vars

\* ---------------------------------------------------------------------
\* SpecLive: the EventManager-based controller on a device that renders
\* slowly while it is the AI's turn, with no pause.  gameLoop reschedules
\* itself in every frame and a setTimeout callback always runs, so frames
\* and pending settleRound callbacks are taken fairly.
\* ---------------------------------------------------------------------

\* The dt of a slow frame: 0.5 s (gameLoop passes it on as it is).
SlowFrameDt == Unit \div 2

LiveDtSet(s) ==
    IF s.main.state = "PLAYING" /\ s.main.turn = "AI" THEN {Num(TURN_TIME)}
    ELSE IF s.main.turn = "AI" THEN {SlowFrameDt}
    ELSE {Unit \div 10}

\* The frame ends in state t of the program.
FrameTo(t) ==
    /\ t.ghost.launches <= MaxLaunches
    /\ Len(t.timers) <= MaxPending
    /\ SetApp(t)

\* RetroMarbleGame.gameLoop
LiveFrame ==
    /\ main.state \in PlayingStates
    /\ IsIdle(App) => ghost.idle < MaxIdle
    /\ \E dt \in LiveDtSet(App), err \in AiAimErrorSet :
         FrameTo(RetroMarbleGame_update(App, dt, err))
    /\ UNCHANGED otherVars

NextLive ==
    \/ LiveFrame
    \/ TouchStart
    \/ TouchMove
    \/ TouchEnd
    \/ SettleTimer

\* The frame would change the state to t.
FrameChanges(t) ==
    /\ t.ghost.launches <= MaxLaunches
    /\ Len(t.timers) <= MaxPending
    /\ t # App

\* ENABLED <<LiveFrame>>_vars, written out.
LiveFrameEnabled ==
    /\ main.state \in PlayingStates
    /\ IsIdle(App) => ghost.idle < MaxIdle
    /\ \E dt \in LiveDtSet(App), err \in AiAimErrorSet :
         FrameChanges(RetroMarbleGame_update(App, dt, err))

\* WF_vars(LiveFrame) with its ENABLED written out, and WF_vars(SettleTimer).
SpecLive ==
    /\ Init /\ [][NextLive]_vars
    /\ ([]<>(~LiveFrameEnabled) \/ []<><<LiveFrame>>_vars)
    /\ WF_vars(SettleTimer)

\* The settleRound evaluations of a behaviour: those that flipped the turn.
FlipRange == 0 .. (MaxLaunches + MaxPending)

\* C27: if frames keep being processed, every launch is eventually followed
\* by the MOVING -> SETTLING transition and a settleRound evaluation (which
\* flips the turn or ends the match), whatever dt the frames pass, unless
\* the match is reset meanwhile.
C27_LaunchLeadsToSettle ==
    \A n \in FlipRange, r \in 0..MaxResets :
       (main.state = "MOVING" /\ ghost.flips = n /\ ghost.resets = r /\ ~ghost.over)
          ~> (ghost.flips > n \/ ghost.over \/ ghost.resets > r)

\* ---------------------------------------------------------------------
\* SpecRound: the EventManager-based controller over two launches, with a
\* player who pauses only after the first launch.
\* ---------------------------------------------------------------------

MaxRoundLaunches == 2

\* RetroMarbleGame.gameLoop
RoundFrame ==
    /\ main.state \in PlayingStates
    /\ IsIdle(App) => ghost.idle < MaxIdle
    /\ \E dt \in FrameDtSet(App), err \in AiAimErrorSet :
         LET t == RetroMarbleGame_update(App, dt, err)
         IN  /\ t.ghost.launches <= MaxRoundLaunches
             /\ Len(t.timers) <= MaxPending
             /\ SetApp(t)
    /\ UNCHANGED otherVars

\* wx.onTouchEnd
RoundTouchEnd ==
    /\ events.isDragging
    /\ LET t == handleTouchEnd(App)
       IN  t.ghost.launches <= MaxRoundLaunches /\ SetApp(t)
    /\ UNCHANGED otherVars

\* RetroMarbleGame.togglePause, while the first launch's ball moves, and
\* again to resume.
RoundTogglePause ==
    /\ ghost.toggles < MaxToggles
    /\ ghost.launches = 1
    /\ main.state \in {"MOVING", "MENU"}
    /\ SetApp(togglePause([App EXCEPT !.ghost.toggles = ghost.toggles + 1]))
    /\ UNCHANGED otherVars

NextRound ==
    \/ RoundFrame
    \/ TouchStart
    \/ TouchMove
    \/ RoundTouchEnd
    \/ RoundTogglePause
    \/ SettleTimer

SpecRound == Init /\ [][NextRound]_vars

\* C28: within one round, between any two launches there is exactly one
\* settleRound evaluation, and the two launches are made by different
\* sides, under every interleaving, togglePause and resume during MOVING
\* included.
C28_OneSettlePerLaunch ==
    [][(/\ ghost'.launches = ghost.launches + 1
        /\ ghost.lastLaunch.side # "NONE"
        /\ ghost.lastLaunch.resets = ghost.resets)
       => (/\ ghost'.lastLaunch.side # ghost.lastLaunch.side
           /\ \/ ghost.flips = ghost.lastLaunch.flips + 1 /\ ghost.over = ghost.lastLaunch.over
              \/ ghost.flips = ghost.lastLaunch.flips /\ ghost.over /\ ~ghost.lastLaunch.over)]_vars

\* ---------------------------------------------------------------------
\* SpecLoop: the frame loops of the two match controllers.  Times are in
\* milliseconds, as Date.now() and the requestAnimationFrame timestamp
\* are; a dt of d milliseconds is the d / 1000 seconds the code computes.
\* ---------------------------------------------------------------------

\* The time of the first frame (the real Date.now() is far larger).
StartClock == 1000

MaxFrames == 4

\* The time between two frames: none, one display frame, 0.1 s, and a
\* long gap (the page was in the background).
FrameGaps == {0, 16, 100, 3000}

\* 0.1 s and 0.016 s in milliseconds.
TenthMs == 100

DefaultDtMs == 16

NoDt == 0 - 1

\* RetroMarbleGame.gameLoop: dt = (current - lastTime) / 1000 || 0.016
gameLoopDt(current, lastTime) ==
    IF current - lastTime = 0 THEN DefaultDtMs ELSE current - lastTime

\* Game.loop: dt = Math.min((timestamp - lastTime) / 1000, 0.1)
loopDt(timestamp, lastTime) ==
    IF timestamp - lastTime < TenthMs THEN timestamp - lastTime ELSE TenthMs

InitLoop ==
    /\ clock = [now |-> StartClock, frames |-> 0,
                retro |-> [lastTime |-> 0, dt |-> NoDt],
                game |-> [lastTime |-> 0, dt |-> NoDt]]
    /\ IdleImpulse /\ IdlePhys /\ IdleGame /\ IdleApp
    /\ race = <<>>

\* One requestAnimationFrame callback of RetroMarbleGame, gap ms after the
\* previous callback of either loop.
GameLoop(gap) ==
    /\ clock.frames < MaxFrames
    /\ clock' = [clock EXCEPT
                   !.now = clock.now + gap,
                   !.frames = clock.frames + 1,
                   !.retro = [lastTime |-> clock.now + gap,
                              dt |-> gameLoopDt(clock.now + gap, clock.retro.lastTime)]]
    /\ UNCHANGED <<impulseVars, physVars, game, appVars, race>>

\* One requestAnimationFrame callback of Game; update(dt) runs only while
\* the state is PLAYING.
Loop(gap, playing) ==
    /\ clock.frames < MaxFrames
    /\ clock' = [clock EXCEPT
                   !.now = clock.now + gap,
                   !.frames = clock.frames + 1,
                   !.game = [lastTime |-> clock.now + gap,
                             dt |-> IF playing
                                    THEN loopDt(clock.now + gap, clock.game.lastTime)
                                    ELSE clock.game.dt]]
    /\ UNCHANGED <<impulseVars, physVars, game, appVars, race>>

NextLoop ==
    \/ \E gap \in FrameGaps : GameLoop(gap)
    \/ \E gap \in FrameGaps, playing \in BOOLEAN : Loop(gap, playing)

SpecLoop == InitLoop /\ [][NextLoop]_vars

\* C21: in every match controller's frame loop the dt handed to update is
\* at most 0.1 s, on the first frame and after any gap between frames.
C21_DtAtMostTenth ==
    clock # <<>> => /\ clock.retro.dt <= TenthMs
                    /\ clock.game.dt <= TenthMs

\* ---------------------------------------------------------------------
\* SpecRace: the marble-racing game (Main of src/js/main.js and its
\* DataBus).  The ball physics is left open: in every running frame any
\* set of unfinished balls may reach the finish line.
\* ---------------------------------------------------------------------

\* The balls of a race (initGameObjects makes 4).
BallCount == 3

BallIds == 0 .. (BallCount - 1)

NoBall == 0 - 1

\* DataBus.reset: score, claimAmount, claimCooldown (ms)
InitialScore == 10

ClaimAmount == 5

ClaimCooldown == 3600000

\* PREVIEW_DURATION (ms)
PreviewDuration == 5000

\* The payout factors of checkGameFinish.
FirstFactor == 4

SecondFactor == 2

MaxRaceFrames == 4

MaxClaims == 2

MaxBets == 2

MaxRestarts == 1

\* GameInfo.betOptions are 1, 2, 4, 8; the other amounts are those a
\* caller of confirmBet or placeBet can pass.
BetAmounts == {0 - 1, 0, 2, 16}

\* The time between two frames: one display frame, or the whole preview.
RaceFrameGap(r) == IF r.gameState = "preview" THEN PreviewDuration ELSE DefaultDtMs

\* new Ball(...) in initGameObjects
NewBalls == [i \in BallIds |-> [finished |-> FALSE, finishTime |-> 0, hasBet |-> FALSE]]

\* DataBus.reset followed by Main.initGameObjects
raceReset(r) ==
    [r EXCEPT !.score = InitialScore, !.gameState = "idle", !.selectedBall = NoBall,
              !.betAmount = 0, !.lastClaimTime = 0, !.balls = NewBalls,
              !.betModal = FALSE]

\* Main.confirmBet with the funds test left out
confirmBetNoFunds(r, betAmount) ==
    IF r.selectedBall = NoBall \/ betAmount <= 0
    THEN r
    ELSE [r EXCEPT !.balls = [i \in BallIds |->
                                [r.balls[i] EXCEPT !.hasBet = (i = r.selectedBall)]],
                   !.betAmount = betAmount,
                   !.score = r.score - betAmount,
                   !.betModal = FALSE,
                   !.gameState = "running"]

\* Main.confirmBet (with no selected ball the first statement throws)
confirmBet(r, betAmount) ==
    IF r.selectedBall = NoBall \/ betAmount <= 0 \/ betAmount > r.score
    THEN r
    ELSE [r EXCEPT !.balls = [i \in BallIds |->
                                [r.balls[i] EXCEPT !.hasBet = (i = r.selectedBall)]],
                   !.betAmount = betAmount,
                   !.score = r.score - betAmount,
                   !.betModal = FALSE,
                   !.gameState = "running"]

\* DataBus.placeBet
placeBet(r, amount) ==
    IF r.selectedBall = NoBall \/ amount <= 0 \/ amount > r.score
    THEN r
    ELSE [r EXCEPT !.balls = [i \in BallIds |->
                                [r.balls[i] EXCEPT !.hasBet = (i = r.selectedBall)]],
                   !.betAmount = amount,
                   !.score = r.score - amount]

\* Main.finishDetection: the balls of F reach the finish line in this frame
finishDetection(r, F) ==
    [r EXCEPT !.balls = [i \in BallIds |->
                           IF i \in F /\ ~r.balls[i].finished
                           THEN [r.balls[i] EXCEPT !.finished = TRUE, !.finishTime = r.now]
                           ELSE r.balls[i]]]

\* finishedBalls.sort((a, b) => a.finishTime - b.finishTime) is stable:
\* ball j stands before ball i if it finished earlier, or at the same
\* time with a smaller index.
sortsBefore(balls, j, i) ==
    \/ balls[j].finishTime < balls[i].finishTime
    \/ balls[j].finishTime = balls[i].finishTime /\ j < i

\* finishedBalls.findIndex(b => b.id === databus.selectedBall?.id) + 1
playerRank(r) ==
    IF r.selectedBall = NoBall
    THEN 0
    ELSE 1 + Cardinality({j \in BallIds : sortsBefore(r.balls, j, r.selectedBall)})

\* The reward of checkGameFinish
reward(r) ==
    IF playerRank(r) = 1 THEN r.betAmount * FirstFactor
    ELSE IF playerRank(r) = 2 THEN r.betAmount * SecondFactor
    ELSE 0

\* Main.checkGameFinish
checkGameFinish(r) ==
    IF (\A i \in BallIds : r.balls[i].finished) /\ r.gameState = "running"
    THEN [r EXCEPT !.gameState = "finished",
                   !.score = r.score + reward(r),
                   !.credit = reward(r),
                   !.payouts = r.payouts + 1]
    ELSE r

\* Main.update
mainUpdate(r, F) ==
    IF r.gameState = "running"
    THEN checkGameFinish(finishDetection(r, F))
    ELSE IF r.gameState = "preview" /\ r.now - r.previewStartTime >= PreviewDuration
    THEN [r EXCEPT !.gameState = "betting", !.betModal = TRUE]
    ELSE r

InitRace ==
    /\ race = [score |-> InitialScore, gameState |-> "idle", selectedBall |-> NoBall,
               betAmount |-> 0, lastClaimTime |-> 0, balls |-> NewBalls,
               betModal |-> FALSE, now |-> StartClock + ClaimCooldown,
               previewStartTime |-> 0,
               frames |-> 0, claims |-> 0, bets |-> 0, restarts |-> 0,
               lastBet |-> [amount |-> 0, by |-> "none"],
               credit |-> 0, payouts |-> 0]
    /\ IdleImpulse /\ IdlePhys /\ IdleGame /\ IdleApp
    /\ clock = <<>>

RaceUnchanged == UNCHANGED <<impulseVars, physVars, game, appVars, clock>>

\* One frame of Main.loop in a state where update acts (in the other
\* states it changes nothing but the camera).
MainUpdate(F) ==
    /\ race.frames < MaxRaceFrames
    /\ race.gameState \in {"running", "preview"}
    /\ F # {} => race.gameState = "running"
    /\ race' = mainUpdate([race EXCEPT !.now = race.now + RaceFrameGap(race),
                                       !.frames = race.frames + 1], F)
    /\ RaceUnchanged

\* A touch on ball i (wx.onTouchStart, ball selection).
SelectBall(i) ==
    /\ race.gameState \in {"idle", "betting"}
    /\ ~race.betModal
    /\ race.selectedBall # i
    /\ race' = [race EXCEPT !.selectedBall = i]
    /\ RaceUnchanged

\* Main.startBetting (menu action 'start'; closeAllModals comes first)
StartBetting ==
    /\ race.gameState = "idle"
    /\ race.selectedBall # NoBall
    /\ \E amount \in {1, 2, 4, 8} : amount <= race.score
    /\ race' = [race EXCEPT !.gameState = "preview", !.previewStartTime = race.now,
                            !.betModal = FALSE]
    /\ RaceUnchanged

\* A touch on a button of the bet modal, or any other call of confirmBet.
ConfirmBet(betAmount) ==
    /\ race.betModal
    /\ race.bets < MaxBets
    /\ race' = [confirmBet(race, betAmount) EXCEPT
                  !.bets = race.bets + 1,
                  !.lastBet = [amount |-> betAmount, by |-> "confirmBet"],
                  !.payouts = IF confirmBet(race, betAmount) = race THEN race.payouts ELSE 0]
    /\ RaceUnchanged

\* DataBus.placeBet
PlaceBet(amount) ==
    /\ race.bets < MaxBets
    /\ race.gameState \in {"idle", "betting"}
    /\ race' = [placeBet(race, amount) EXCEPT
                  !.bets = race.bets + 1,
                  !.lastBet = [amount |-> amount, by |-> "placeBet"]]
    /\ RaceUnchanged

\* Main.cancelBet
CancelBet ==
    /\ race.betModal
    /\ race' = [race EXCEPT !.betModal = FALSE, !.gameState = "idle"]
    /\ RaceUnchanged

\* Main.claimPoints
ClaimPoints ==
    /\ race.claims < MaxClaims
    /\ race' = IF race.now - race.lastClaimTime < ClaimCooldown
               THEN [race EXCEPT !.claims = race.claims + 1, !.betModal = FALSE]
               ELSE [race EXCEPT !.claims = race.claims + 1, !.betModal = FALSE,
                                 !.score = race.score + ClaimAmount,
                                 !.lastClaimTime = race.now]
    /\ RaceUnchanged

\* Main.togglePause
MainTogglePause ==
    /\ race.gameState \in {"running", "paused"}
    /\ race' = [race EXCEPT !.gameState = IF race.gameState = "running"
                                          THEN "paused" ELSE "running",
                            !.betModal = FALSE]
    /\ RaceUnchanged

\* Main.restartGame
RestartGame ==
    /\ race.restarts < MaxRestarts
    /\ race' = [race EXCEPT !.gameState = "idle", !.selectedBall = NoBall,
                            !.betAmount = 0, !.betModal = FALSE, !.balls = NewBalls,
                            !.restarts = race.restarts + 1]
    /\ RaceUnchanged

\* Main.init: databus.reset() and initGameObjects()
MainInit ==
    /\ race.restarts < MaxRestarts
    /\ race' = [raceReset(race) EXCEPT !.restarts = race.restarts + 1]
    /\ RaceUnchanged

NextRace ==
    \/ \E F \in SUBSET BallIds : MainUpdate(F)
    \/ \E i \in BallIds : SelectBall(i)
    \/ StartBetting
    \/ \E betAmount \in BetAmounts : ConfirmBet(betAmount)
    \/ \E amount \in BetAmounts : PlaceBet(amount)
    \/ CancelBet
    \/ ClaimPoints
    \/ MainTogglePause
    \/ RestartGame
    \/ MainInit

SpecRace == InitRace /\ [][NextRace]_vars

\* The balls that crossed the finish line strictly before the backed ball.
FinishedEarlier(r) ==
    {j \in BallIds : r.balls[j].finishTime < r.balls[r.selectedBall].finishTime}

\* The payout the rules promise: 4 x the bet for the earliest finish, 2 x
\* for the second, nothing otherwise.
PromisedPayout(r) ==
    IF Cardinality(FinishedEarlier(r)) = 0 THEN FirstFactor * r.betAmount
    ELSE IF Cardinality(FinishedEarlier(r)) = 1 THEN SecondFactor * r.betAmount
    ELSE 0

\* C22: when every ball has finished while the race is running, gameState
\* becomes 'finished' and score is credited exactly once: by 4 x betAmount
\* if the backed ball has the earliest finish, by 2 x betAmount if it is
\* second, by nothing otherwise.
C22_PayoutByFinishOrder ==
    (race # <<>> /\ race.gameState = "finished") =>
        /\ race.payouts = 1
        /\ race.credit = PromisedPayout(race)

\* A bet the code has to turn down.
InvalidBet(r, amount) == amount <= 0 \/ amount > r.score \/ r.selectedBall = NoBall

SameBets(r1, r2) ==
    /\ r2.score = r1.score
    /\ r2.betAmount = r1.betAmount
    /\ \A i \in BallIds : r2.balls[i].hasBet = r1.balls[i].hasBet

\* C30: over any sequence of claims, bets, payouts, restarts and resets
\* the score is never negative, and a bet with amount <= 0, amount > score
\* or no selected ball leaves score, betAmount and every hasBet unchanged.
C30_ScoreNeverNegative ==
    /\ [](race # <<>> => race.score >= 0)
    /\ [][(race'.bets # race.bets /\ InvalidBet(race, race'.lastBet.amount))
            => SameBets(race, race')]_vars

\* A bet of more than the score was turned down after a bet was accepted.
C30_Witness ==
    /\ race # <<>>
    /\ race.bets = 2
    /\ race.lastBet.amount > race.score
    /\ race.betAmount = 2
    /\ race.score = InitialScore - 2

====
